---- MODULE Spec2Model ----
(***************************************************************************)
(* Model of the adaptive EDI extractor (src/extract_edi_adaptive.py).      *)
(*                                                                         *)
(* Text is modelled character by character: a Python str is a sequence of  *)
(* one-character strings, so that every regular expression of the source   *)
(* is decided on the characters it reads.  Positions are offsets: position *)
(* p lies after the first p characters, the character that follows it is   *)
(* s[p+1].                                                                 *)
(***************************************************************************)
EXTENDS Integers, Sequences, FiniteSets, TLC

VARIABLES
    pdf,              \* the document: a sequence of pages [text, tables]
    pc,               \* position of the pipeline
    pdf_format,       \* self.pdf_format
    segments_dict,    \* self.segments_dict, in insertion order
    heap,             \* the element and group dicts created so far, by identity
    page_num,         \* page under extraction (1-based)
    table_idx,        \* table of that page under extraction (1-based)
    row_idx,          \* row of that table the row loop will visit next (1-based)
    current_segment,  \* _parse_faurecia_table: current_segment
    current_group,    \* both parsers: current_group (identity in heap, 0 = None)
    last_segment,     \* _parse_vda_table: last_segment (position in segments_dict)
    returned,         \* the list extract_all returned
    json_out,         \* the array save_to_json wrote
    declared,         \* history: mnemonic of the header most recently read (VDA)
    origin,           \* history: for each heap object, the row that emitted it
    enrich_in,        \* history: segments_dict as add_standard_descriptions got it
    norm_arg,         \* argument of the next clean_description call
    norm_hist         \* results of the clean_description calls made so far

vars == <<pdf, pc, pdf_format, segments_dict, heap, page_num, table_idx, row_idx,
          current_segment, current_group, last_segment, returned, json_out,
          declared, origin, enrich_in, norm_arg, norm_hist>>

----------------------------------------------------------------------------
(* Characters and character classes of Python's re module                  *)

Upper == {"A","B","C","D","E","F","G","H","I","J","K","L","M",
          "N","O","P","Q","R","S","T","U","V","W","X","Y","Z"}
Lower == {"a","b","c","d","e","f","g","h","i","j","k","l","m",
          "n","o","p","q","r","s","t","u","v","w","x","y","z"}
\* 0-9 inside a bracketed class such as [A-Z0-9]
AsciiDigit == {"0","1","2","3","4","5","6","7","8","9"}

\* The patterns are str patterns, so \d, \s, \w and \b follow Unicode. A
\* character up to U+00FF is the one-character string of that character; a
\* character above U+00FF, which a string of this language cannot hold, is
\* the string "U+" followed by its code point in hexadecimal (4 digits at
\* least), e.g. "U+0663", "U+FF11", "U+1D7CE".
HexDigits == <<"0","1","2","3","4","5","6","7","8","9","A","B","C","D","E","F">>
RECURSIVE Hex(_)
Hex(n) ==
    IF n < 16 THEN HexDigits[n + 1]
    ELSE Hex(n \div 16) \o HexDigits[(n % 16) + 1]
Chr(n) == "U+" \o (IF n < 4096 THEN "0" ELSE "") \o Hex(n)
\* the characters of the given ranges of code points above U+00FF
Chars(ranges) == {Chr(n) : n \in UNION {r[1]..r[2] : r \in ranges}}

\* \d: the decimal digits (category Nd) of all scripts
Digit ==
    {"0", "1", "2", "3", "4", "5", "6", "7", "8", "9", "U+0660", "U+0661",
     "U+0662", "U+0663", "U+0664", "U+0665", "U+0666", "U+0667", "U+0668",
     "U+0669", "U+06F0", "U+06F1", "U+06F2", "U+06F3", "U+06F4", "U+06F5",
     "U+06F6", "U+06F7", "U+06F8", "U+06F9", "U+07C0", "U+07C1", "U+07C2",
     "U+07C3", "U+07C4", "U+07C5", "U+07C6", "U+07C7", "U+07C8", "U+07C9",
     "U+0966", "U+0967", "U+0968", "U+0969", "U+096A", "U+096B", "U+096C",
     "U+096D", "U+096E", "U+096F", "U+09E6", "U+09E7", "U+09E8", "U+09E9",
     "U+09EA", "U+09EB", "U+09EC", "U+09ED", "U+09EE", "U+09EF", "U+0A66",
     "U+0A67", "U+0A68", "U+0A69", "U+0A6A", "U+0A6B", "U+0A6C", "U+0A6D",
     "U+0A6E", "U+0A6F", "U+0AE6", "U+0AE7", "U+0AE8", "U+0AE9", "U+0AEA",
     "U+0AEB", "U+0AEC", "U+0AED", "U+0AEE", "U+0AEF", "U+0B66", "U+0B67",
     "U+0B68", "U+0B69", "U+0B6A", "U+0B6B", "U+0B6C", "U+0B6D", "U+0B6E",
     "U+0B6F", "U+0BE6", "U+0BE7", "U+0BE8", "U+0BE9", "U+0BEA", "U+0BEB",
     "U+0BEC", "U+0BED", "U+0BEE", "U+0BEF", "U+0C66", "U+0C67", "U+0C68",
     "U+0C69", "U+0C6A", "U+0C6B", "U+0C6C", "U+0C6D", "U+0C6E", "U+0C6F",
     "U+0CE6", "U+0CE7", "U+0CE8", "U+0CE9", "U+0CEA", "U+0CEB", "U+0CEC",
     "U+0CED", "U+0CEE", "U+0CEF", "U+0D66", "U+0D67", "U+0D68", "U+0D69",
     "U+0D6A", "U+0D6B", "U+0D6C", "U+0D6D", "U+0D6E", "U+0D6F", "U+0DE6",
     "U+0DE7", "U+0DE8", "U+0DE9", "U+0DEA", "U+0DEB", "U+0DEC", "U+0DED",
     "U+0DEE", "U+0DEF", "U+0E50", "U+0E51", "U+0E52", "U+0E53", "U+0E54",
     "U+0E55", "U+0E56", "U+0E57", "U+0E58", "U+0E59", "U+0ED0", "U+0ED1",
     "U+0ED2", "U+0ED3", "U+0ED4", "U+0ED5", "U+0ED6", "U+0ED7", "U+0ED8",
     "U+0ED9", "U+0F20", "U+0F21", "U+0F22", "U+0F23", "U+0F24", "U+0F25",
     "U+0F26", "U+0F27", "U+0F28", "U+0F29", "U+1040", "U+1041", "U+1042",
     "U+1043", "U+1044", "U+1045", "U+1046", "U+1047", "U+1048", "U+1049",
     "U+1090", "U+1091", "U+1092", "U+1093", "U+1094", "U+1095", "U+1096",
     "U+1097", "U+1098", "U+1099", "U+17E0", "U+17E1", "U+17E2", "U+17E3",
     "U+17E4", "U+17E5", "U+17E6", "U+17E7", "U+17E8", "U+17E9", "U+1810",
     "U+1811", "U+1812", "U+1813", "U+1814", "U+1815", "U+1816", "U+1817",
     "U+1818", "U+1819", "U+1946", "U+1947", "U+1948", "U+1949", "U+194A",
     "U+194B", "U+194C", "U+194D", "U+194E", "U+194F", "U+19D0", "U+19D1",
     "U+19D2", "U+19D3", "U+19D4", "U+19D5", "U+19D6", "U+19D7", "U+19D8",
     "U+19D9", "U+1A80", "U+1A81", "U+1A82", "U+1A83", "U+1A84", "U+1A85",
     "U+1A86", "U+1A87", "U+1A88", "U+1A89", "U+1A90", "U+1A91", "U+1A92",
     "U+1A93", "U+1A94", "U+1A95", "U+1A96", "U+1A97", "U+1A98", "U+1A99",
     "U+1B50", "U+1B51", "U+1B52", "U+1B53", "U+1B54", "U+1B55", "U+1B56",
     "U+1B57", "U+1B58", "U+1B59", "U+1BB0", "U+1BB1", "U+1BB2", "U+1BB3",
     "U+1BB4", "U+1BB5", "U+1BB6", "U+1BB7", "U+1BB8", "U+1BB9", "U+1C40",
     "U+1C41", "U+1C42", "U+1C43", "U+1C44", "U+1C45", "U+1C46", "U+1C47",
     "U+1C48", "U+1C49", "U+1C50", "U+1C51", "U+1C52", "U+1C53", "U+1C54",
     "U+1C55", "U+1C56", "U+1C57", "U+1C58", "U+1C59", "U+A620", "U+A621",
     "U+A622", "U+A623", "U+A624", "U+A625", "U+A626", "U+A627", "U+A628",
     "U+A629", "U+A8D0", "U+A8D1", "U+A8D2", "U+A8D3", "U+A8D4", "U+A8D5",
     "U+A8D6", "U+A8D7", "U+A8D8", "U+A8D9", "U+A900", "U+A901", "U+A902",
     "U+A903", "U+A904", "U+A905", "U+A906", "U+A907", "U+A908", "U+A909",
     "U+A9D0", "U+A9D1", "U+A9D2", "U+A9D3", "U+A9D4", "U+A9D5", "U+A9D6",
     "U+A9D7", "U+A9D8", "U+A9D9", "U+A9F0", "U+A9F1", "U+A9F2", "U+A9F3",
     "U+A9F4", "U+A9F5", "U+A9F6", "U+A9F7", "U+A9F8", "U+A9F9", "U+AA50",
     "U+AA51", "U+AA52", "U+AA53", "U+AA54", "U+AA55", "U+AA56", "U+AA57",
     "U+AA58", "U+AA59", "U+ABF0", "U+ABF1", "U+ABF2", "U+ABF3", "U+ABF4",
     "U+ABF5", "U+ABF6", "U+ABF7", "U+ABF8", "U+ABF9", "U+FF10", "U+FF11",
     "U+FF12", "U+FF13", "U+FF14", "U+FF15", "U+FF16", "U+FF17", "U+FF18",
     "U+FF19", "U+104A0", "U+104A1", "U+104A2", "U+104A3", "U+104A4",
     "U+104A5", "U+104A6", "U+104A7", "U+104A8", "U+104A9", "U+10D30",
     "U+10D31", "U+10D32", "U+10D33", "U+10D34", "U+10D35", "U+10D36",
     "U+10D37", "U+10D38", "U+10D39", "U+11066", "U+11067", "U+11068",
     "U+11069", "U+1106A", "U+1106B", "U+1106C", "U+1106D", "U+1106E",
     "U+1106F", "U+110F0", "U+110F1", "U+110F2", "U+110F3", "U+110F4",
     "U+110F5", "U+110F6", "U+110F7", "U+110F8", "U+110F9", "U+11136",
     "U+11137", "U+11138", "U+11139", "U+1113A", "U+1113B", "U+1113C",
     "U+1113D", "U+1113E", "U+1113F", "U+111D0", "U+111D1", "U+111D2",
     "U+111D3", "U+111D4", "U+111D5", "U+111D6", "U+111D7", "U+111D8",
     "U+111D9", "U+112F0", "U+112F1", "U+112F2", "U+112F3", "U+112F4",
     "U+112F5", "U+112F6", "U+112F7", "U+112F8", "U+112F9", "U+11450",
     "U+11451", "U+11452", "U+11453", "U+11454", "U+11455", "U+11456",
     "U+11457", "U+11458", "U+11459", "U+114D0", "U+114D1", "U+114D2",
     "U+114D3", "U+114D4", "U+114D5", "U+114D6", "U+114D7", "U+114D8",
     "U+114D9", "U+11650", "U+11651", "U+11652", "U+11653", "U+11654",
     "U+11655", "U+11656", "U+11657", "U+11658", "U+11659", "U+116C0",
     "U+116C1", "U+116C2", "U+116C3", "U+116C4", "U+116C5", "U+116C6",
     "U+116C7", "U+116C8", "U+116C9", "U+11730", "U+11731", "U+11732",
     "U+11733", "U+11734", "U+11735", "U+11736", "U+11737", "U+11738",
     "U+11739", "U+118E0", "U+118E1", "U+118E2", "U+118E3", "U+118E4",
     "U+118E5", "U+118E6", "U+118E7", "U+118E8", "U+118E9", "U+11950",
     "U+11951", "U+11952", "U+11953", "U+11954", "U+11955", "U+11956",
     "U+11957", "U+11958", "U+11959", "U+11C50", "U+11C51", "U+11C52",
     "U+11C53", "U+11C54", "U+11C55", "U+11C56", "U+11C57", "U+11C58",
     "U+11C59", "U+11D50", "U+11D51", "U+11D52", "U+11D53", "U+11D54",
     "U+11D55", "U+11D56", "U+11D57", "U+11D58", "U+11D59", "U+11DA0",
     "U+11DA1", "U+11DA2", "U+11DA3", "U+11DA4", "U+11DA5", "U+11DA6",
     "U+11DA7", "U+11DA8", "U+11DA9", "U+16A60", "U+16A61", "U+16A62",
     "U+16A63", "U+16A64", "U+16A65", "U+16A66", "U+16A67", "U+16A68",
     "U+16A69", "U+16AC0", "U+16AC1", "U+16AC2", "U+16AC3", "U+16AC4",
     "U+16AC5", "U+16AC6", "U+16AC7", "U+16AC8", "U+16AC9", "U+16B50",
     "U+16B51", "U+16B52", "U+16B53", "U+16B54", "U+16B55", "U+16B56",
     "U+16B57", "U+16B58", "U+16B59", "U+1D7CE", "U+1D7CF", "U+1D7D0",
     "U+1D7D1", "U+1D7D2", "U+1D7D3", "U+1D7D4", "U+1D7D5", "U+1D7D6",
     "U+1D7D7", "U+1D7D8", "U+1D7D9", "U+1D7DA", "U+1D7DB", "U+1D7DC",
     "U+1D7DD", "U+1D7DE", "U+1D7DF", "U+1D7E0", "U+1D7E1", "U+1D7E2",
     "U+1D7E3", "U+1D7E4", "U+1D7E5", "U+1D7E6", "U+1D7E7", "U+1D7E8",
     "U+1D7E9", "U+1D7EA", "U+1D7EB", "U+1D7EC", "U+1D7ED", "U+1D7EE",
     "U+1D7EF", "U+1D7F0", "U+1D7F1", "U+1D7F2", "U+1D7F3", "U+1D7F4",
     "U+1D7F5", "U+1D7F6", "U+1D7F7", "U+1D7F8", "U+1D7F9", "U+1D7FA",
     "U+1D7FB", "U+1D7FC", "U+1D7FD", "U+1D7FE", "U+1D7FF", "U+1E140",
     "U+1E141", "U+1E142", "U+1E143", "U+1E144", "U+1E145", "U+1E146",
     "U+1E147", "U+1E148", "U+1E149", "U+1E2F0", "U+1E2F1", "U+1E2F2",
     "U+1E2F3", "U+1E2F4", "U+1E2F5", "U+1E2F6", "U+1E2F7", "U+1E2F8",
     "U+1E2F9", "U+1E950", "U+1E951", "U+1E952", "U+1E953", "U+1E954",
     "U+1E955", "U+1E956", "U+1E957", "U+1E958", "U+1E959", "U+1FBF0",
     "U+1FBF1", "U+1FBF2", "U+1FBF3", "U+1FBF4", "U+1FBF5", "U+1FBF6",
     "U+1FBF7", "U+1FBF8", "U+1FBF9"}

\* \s, and the characters str.strip() and str.split() remove: U+0009-U+000D,
\* U+001C-U+001F, U+0020, U+0085, U+00A0 and the spaces above U+00FF
Space ==
    {"\t", "\n", "", "\f", "\r", "", "", "", "", " ", "", " ", "U+1680",
     "U+2000", "U+2001", "U+2002", "U+2003", "U+2004", "U+2005", "U+2006",
     "U+2007", "U+2008", "U+2009", "U+200A", "U+2028", "U+2029", "U+202F",
     "U+205F", "U+3000"}

\* \w above U+00FF: the letters and digits of all scripts
WordRanges ==
    {<<\H0100, \H02C1>>, <<\H02C6, \H02D1>>, <<\H02E0, \H02E4>>,
     <<\H02EC, \H02EC>>, <<\H02EE, \H02EE>>, <<\H0370, \H0374>>,
     <<\H0376, \H0377>>, <<\H037A, \H037D>>, <<\H037F, \H037F>>,
     <<\H0386, \H0386>>, <<\H0388, \H038A>>, <<\H038C, \H038C>>,
     <<\H038E, \H03A1>>, <<\H03A3, \H03F5>>, <<\H03F7, \H0481>>,
     <<\H048A, \H052F>>, <<\H0531, \H0556>>, <<\H0559, \H0559>>,
     <<\H0560, \H0588>>, <<\H05D0, \H05EA>>, <<\H05EF, \H05F2>>,
     <<\H0620, \H064A>>, <<\H0660, \H0669>>, <<\H066E, \H066F>>,
     <<\H0671, \H06D3>>, <<\H06D5, \H06D5>>, <<\H06E5, \H06E6>>,
     <<\H06EE, \H06FC>>, <<\H06FF, \H06FF>>, <<\H0710, \H0710>>,
     <<\H0712, \H072F>>, <<\H074D, \H07A5>>, <<\H07B1, \H07B1>>,
     <<\H07C0, \H07EA>>, <<\H07F4, \H07F5>>, <<\H07FA, \H07FA>>,
     <<\H0800, \H0815>>, <<\H081A, \H081A>>, <<\H0824, \H0824>>,
     <<\H0828, \H0828>>, <<\H0840, \H0858>>, <<\H0860, \H086A>>,
     <<\H0870, \H0887>>, <<\H0889, \H088E>>, <<\H08A0, \H08C9>>,
     <<\H0904, \H0939>>, <<\H093D, \H093D>>, <<\H0950, \H0950>>,
     <<\H0958, \H0961>>, <<\H0966, \H096F>>, <<\H0971, \H0980>>,
     <<\H0985, \H098C>>, <<\H098F, \H0990>>, <<\H0993, \H09A8>>,
     <<\H09AA, \H09B0>>, <<\H09B2, \H09B2>>, <<\H09B6, \H09B9>>,
     <<\H09BD, \H09BD>>, <<\H09CE, \H09CE>>, <<\H09DC, \H09DD>>,
     <<\H09DF, \H09E1>>, <<\H09E6, \H09F1>>, <<\H09F4, \H09F9>>,
     <<\H09FC, \H09FC>>, <<\H0A05, \H0A0A>>, <<\H0A0F, \H0A10>>,
     <<\H0A13, \H0A28>>, <<\H0A2A, \H0A30>>, <<\H0A32, \H0A33>>,
     <<\H0A35, \H0A36>>, <<\H0A38, \H0A39>>, <<\H0A59, \H0A5C>>,
     <<\H0A5E, \H0A5E>>, <<\H0A66, \H0A6F>>, <<\H0A72, \H0A74>>,
     <<\H0A85, \H0A8D>>, <<\H0A8F, \H0A91>>, <<\H0A93, \H0AA8>>,
     <<\H0AAA, \H0AB0>>, <<\H0AB2, \H0AB3>>, <<\H0AB5, \H0AB9>>,
     <<\H0ABD, \H0ABD>>, <<\H0AD0, \H0AD0>>, <<\H0AE0, \H0AE1>>,
     <<\H0AE6, \H0AEF>>, <<\H0AF9, \H0AF9>>, <<\H0B05, \H0B0C>>,
     <<\H0B0F, \H0B10>>, <<\H0B13, \H0B28>>, <<\H0B2A, \H0B30>>,
     <<\H0B32, \H0B33>>, <<\H0B35, \H0B39>>, <<\H0B3D, \H0B3D>>,
     <<\H0B5C, \H0B5D>>, <<\H0B5F, \H0B61>>, <<\H0B66, \H0B6F>>,
     <<\H0B71, \H0B77>>, <<\H0B83, \H0B83>>, <<\H0B85, \H0B8A>>,
     <<\H0B8E, \H0B90>>, <<\H0B92, \H0B95>>, <<\H0B99, \H0B9A>>,
     <<\H0B9C, \H0B9C>>, <<\H0B9E, \H0B9F>>, <<\H0BA3, \H0BA4>>,
     <<\H0BA8, \H0BAA>>, <<\H0BAE, \H0BB9>>, <<\H0BD0, \H0BD0>>,
     <<\H0BE6, \H0BF2>>, <<\H0C05, \H0C0C>>, <<\H0C0E, \H0C10>>,
     <<\H0C12, \H0C28>>, <<\H0C2A, \H0C39>>, <<\H0C3D, \H0C3D>>,
     <<\H0C58, \H0C5A>>, <<\H0C5D, \H0C5D>>, <<\H0C60, \H0C61>>,
     <<\H0C66, \H0C6F>>, <<\H0C78, \H0C7E>>, <<\H0C80, \H0C80>>,
     <<\H0C85, \H0C8C>>, <<\H0C8E, \H0C90>>, <<\H0C92, \H0CA8>>,
     <<\H0CAA, \H0CB3>>, <<\H0CB5, \H0CB9>>, <<\H0CBD, \H0CBD>>,
     <<\H0CDD, \H0CDE>>, <<\H0CE0, \H0CE1>>, <<\H0CE6, \H0CEF>>,
     <<\H0CF1, \H0CF2>>, <<\H0D04, \H0D0C>>, <<\H0D0E, \H0D10>>,
     <<\H0D12, \H0D3A>>, <<\H0D3D, \H0D3D>>, <<\H0D4E, \H0D4E>>,
     <<\H0D54, \H0D56>>, <<\H0D58, \H0D61>>, <<\H0D66, \H0D78>>,
     <<\H0D7A, \H0D7F>>, <<\H0D85, \H0D96>>, <<\H0D9A, \H0DB1>>,
     <<\H0DB3, \H0DBB>>, <<\H0DBD, \H0DBD>>, <<\H0DC0, \H0DC6>>,
     <<\H0DE6, \H0DEF>>, <<\H0E01, \H0E30>>, <<\H0E32, \H0E33>>,
     <<\H0E40, \H0E46>>, <<\H0E50, \H0E59>>, <<\H0E81, \H0E82>>,
     <<\H0E84, \H0E84>>, <<\H0E86, \H0E8A>>, <<\H0E8C, \H0EA3>>,
     <<\H0EA5, \H0EA5>>, <<\H0EA7, \H0EB0>>, <<\H0EB2, \H0EB3>>,
     <<\H0EBD, \H0EBD>>, <<\H0EC0, \H0EC4>>, <<\H0EC6, \H0EC6>>,
     <<\H0ED0, \H0ED9>>, <<\H0EDC, \H0EDF>>, <<\H0F00, \H0F00>>,
     <<\H0F20, \H0F33>>, <<\H0F40, \H0F47>>, <<\H0F49, \H0F6C>>,
     <<\H0F88, \H0F8C>>, <<\H1000, \H102A>>, <<\H103F, \H1049>>,
     <<\H1050, \H1055>>, <<\H105A, \H105D>>, <<\H1061, \H1061>>,
     <<\H1065, \H1066>>, <<\H106E, \H1070>>, <<\H1075, \H1081>>,
     <<\H108E, \H108E>>, <<\H1090, \H1099>>, <<\H10A0, \H10C5>>,
     <<\H10C7, \H10C7>>, <<\H10CD, \H10CD>>, <<\H10D0, \H10FA>>,
     <<\H10FC, \H1248>>, <<\H124A, \H124D>>, <<\H1250, \H1256>>,
     <<\H1258, \H1258>>, <<\H125A, \H125D>>, <<\H1260, \H1288>>,
     <<\H128A, \H128D>>, <<\H1290, \H12B0>>, <<\H12B2, \H12B5>>,
     <<\H12B8, \H12BE>>, <<\H12C0, \H12C0>>, <<\H12C2, \H12C5>>,
     <<\H12C8, \H12D6>>, <<\H12D8, \H1310>>, <<\H1312, \H1315>>,
     <<\H1318, \H135A>>, <<\H1369, \H137C>>, <<\H1380, \H138F>>,
     <<\H13A0, \H13F5>>, <<\H13F8, \H13FD>>, <<\H1401, \H166C>>,
     <<\H166F, \H167F>>, <<\H1681, \H169A>>, <<\H16A0, \H16EA>>,
     <<\H16EE, \H16F8>>, <<\H1700, \H1711>>, <<\H171F, \H1731>>,
     <<\H1740, \H1751>>, <<\H1760, \H176C>>, <<\H176E, \H1770>>,
     <<\H1780, \H17B3>>, <<\H17D7, \H17D7>>, <<\H17DC, \H17DC>>,
     <<\H17E0, \H17E9>>, <<\H17F0, \H17F9>>, <<\H1810, \H1819>>,
     <<\H1820, \H1878>>, <<\H1880, \H1884>>, <<\H1887, \H18A8>>,
     <<\H18AA, \H18AA>>, <<\H18B0, \H18F5>>, <<\H1900, \H191E>>,
     <<\H1946, \H196D>>, <<\H1970, \H1974>>, <<\H1980, \H19AB>>,
     <<\H19B0, \H19C9>>, <<\H19D0, \H19DA>>, <<\H1A00, \H1A16>>,
     <<\H1A20, \H1A54>>, <<\H1A80, \H1A89>>, <<\H1A90, \H1A99>>,
     <<\H1AA7, \H1AA7>>, <<\H1B05, \H1B33>>, <<\H1B45, \H1B4C>>,
     <<\H1B50, \H1B59>>, <<\H1B83, \H1BA0>>, <<\H1BAE, \H1BE5>>,
     <<\H1C00, \H1C23>>, <<\H1C40, \H1C49>>, <<\H1C4D, \H1C7D>>,
     <<\H1C80, \H1C88>>, <<\H1C90, \H1CBA>>, <<\H1CBD, \H1CBF>>,
     <<\H1CE9, \H1CEC>>, <<\H1CEE, \H1CF3>>, <<\H1CF5, \H1CF6>>,
     <<\H1CFA, \H1CFA>>, <<\H1D00, \H1DBF>>, <<\H1E00, \H1F15>>,
     <<\H1F18, \H1F1D>>, <<\H1F20, \H1F45>>, <<\H1F48, \H1F4D>>,
     <<\H1F50, \H1F57>>, <<\H1F59, \H1F59>>, <<\H1F5B, \H1F5B>>,
     <<\H1F5D, \H1F5D>>, <<\H1F5F, \H1F7D>>, <<\H1F80, \H1FB4>>,
     <<\H1FB6, \H1FBC>>, <<\H1FBE, \H1FBE>>, <<\H1FC2, \H1FC4>>,
     <<\H1FC6, \H1FCC>>, <<\H1FD0, \H1FD3>>, <<\H1FD6, \H1FDB>>,
     <<\H1FE0, \H1FEC>>, <<\H1FF2, \H1FF4>>, <<\H1FF6, \H1FFC>>,
     <<\H2070, \H2071>>, <<\H2074, \H2079>>, <<\H207F, \H2089>>,
     <<\H2090, \H209C>>, <<\H2102, \H2102>>, <<\H2107, \H2107>>,
     <<\H210A, \H2113>>, <<\H2115, \H2115>>, <<\H2119, \H211D>>,
     <<\H2124, \H2124>>, <<\H2126, \H2126>>, <<\H2128, \H2128>>,
     <<\H212A, \H212D>>, <<\H212F, \H2139>>, <<\H213C, \H213F>>,
     <<\H2145, \H2149>>, <<\H214E, \H214E>>, <<\H2150, \H2189>>,
     <<\H2460, \H249B>>, <<\H24EA, \H24FF>>, <<\H2776, \H2793>>,
     <<\H2C00, \H2CE4>>, <<\H2CEB, \H2CEE>>, <<\H2CF2, \H2CF3>>,
     <<\H2CFD, \H2CFD>>, <<\H2D00, \H2D25>>, <<\H2D27, \H2D27>>,
     <<\H2D2D, \H2D2D>>, <<\H2D30, \H2D67>>, <<\H2D6F, \H2D6F>>,
     <<\H2D80, \H2D96>>, <<\H2DA0, \H2DA6>>, <<\H2DA8, \H2DAE>>,
     <<\H2DB0, \H2DB6>>, <<\H2DB8, \H2DBE>>, <<\H2DC0, \H2DC6>>,
     <<\H2DC8, \H2DCE>>, <<\H2DD0, \H2DD6>>, <<\H2DD8, \H2DDE>>,
     <<\H2E2F, \H2E2F>>, <<\H3005, \H3007>>, <<\H3021, \H3029>>,
     <<\H3031, \H3035>>, <<\H3038, \H303C>>, <<\H3041, \H3096>>,
     <<\H309D, \H309F>>, <<\H30A1, \H30FA>>, <<\H30FC, \H30FF>>,
     <<\H3105, \H312F>>, <<\H3131, \H318E>>, <<\H3192, \H3195>>,
     <<\H31A0, \H31BF>>, <<\H31F0, \H31FF>>, <<\H3220, \H3229>>,
     <<\H3248, \H324F>>, <<\H3251, \H325F>>, <<\H3280, \H3289>>,
     <<\H32B1, \H32BF>>, <<\H3400, \H4DBF>>, <<\H4E00, \HA48C>>,
     <<\HA4D0, \HA4FD>>, <<\HA500, \HA60C>>, <<\HA610, \HA62B>>,
     <<\HA640, \HA66E>>, <<\HA67F, \HA69D>>, <<\HA6A0, \HA6EF>>,
     <<\HA717, \HA71F>>, <<\HA722, \HA788>>, <<\HA78B, \HA7CA>>,
     <<\HA7D0, \HA7D1>>, <<\HA7D3, \HA7D3>>, <<\HA7D5, \HA7D9>>,
     <<\HA7F2, \HA801>>, <<\HA803, \HA805>>, <<\HA807, \HA80A>>,
     <<\HA80C, \HA822>>, <<\HA830, \HA835>>, <<\HA840, \HA873>>,
     <<\HA882, \HA8B3>>, <<\HA8D0, \HA8D9>>, <<\HA8F2, \HA8F7>>,
     <<\HA8FB, \HA8FB>>, <<\HA8FD, \HA8FE>>, <<\HA900, \HA925>>,
     <<\HA930, \HA946>>, <<\HA960, \HA97C>>, <<\HA984, \HA9B2>>,
     <<\HA9CF, \HA9D9>>, <<\HA9E0, \HA9E4>>, <<\HA9E6, \HA9FE>>,
     <<\HAA00, \HAA28>>, <<\HAA40, \HAA42>>, <<\HAA44, \HAA4B>>,
     <<\HAA50, \HAA59>>, <<\HAA60, \HAA76>>, <<\HAA7A, \HAA7A>>,
     <<\HAA7E, \HAAAF>>, <<\HAAB1, \HAAB1>>, <<\HAAB5, \HAAB6>>,
     <<\HAAB9, \HAABD>>, <<\HAAC0, \HAAC0>>, <<\HAAC2, \HAAC2>>,
     <<\HAADB, \HAADD>>, <<\HAAE0, \HAAEA>>, <<\HAAF2, \HAAF4>>,
     <<\HAB01, \HAB06>>, <<\HAB09, \HAB0E>>, <<\HAB11, \HAB16>>,
     <<\HAB20, \HAB26>>, <<\HAB28, \HAB2E>>, <<\HAB30, \HAB5A>>,
     <<\HAB5C, \HAB69>>, <<\HAB70, \HABE2>>, <<\HABF0, \HABF9>>,
     <<\HAC00, \HD7A3>>, <<\HD7B0, \HD7C6>>, <<\HD7CB, \HD7FB>>,
     <<\HF900, \HFA6D>>, <<\HFA70, \HFAD9>>, <<\HFB00, \HFB06>>,
     <<\HFB13, \HFB17>>, <<\HFB1D, \HFB1D>>, <<\HFB1F, \HFB28>>,
     <<\HFB2A, \HFB36>>, <<\HFB38, \HFB3C>>, <<\HFB3E, \HFB3E>>,
     <<\HFB40, \HFB41>>, <<\HFB43, \HFB44>>, <<\HFB46, \HFBB1>>,
     <<\HFBD3, \HFD3D>>, <<\HFD50, \HFD8F>>, <<\HFD92, \HFDC7>>,
     <<\HFDF0, \HFDFB>>, <<\HFE70, \HFE74>>, <<\HFE76, \HFEFC>>,
     <<\HFF10, \HFF19>>, <<\HFF21, \HFF3A>>, <<\HFF41, \HFF5A>>,
     <<\HFF66, \HFFBE>>, <<\HFFC2, \HFFC7>>, <<\HFFCA, \HFFCF>>,
     <<\HFFD2, \HFFD7>>, <<\HFFDA, \HFFDC>>, <<\H10000, \H1000B>>,
     <<\H1000D, \H10026>>, <<\H10028, \H1003A>>, <<\H1003C, \H1003D>>,
     <<\H1003F, \H1004D>>, <<\H10050, \H1005D>>, <<\H10080, \H100FA>>,
     <<\H10107, \H10133>>, <<\H10140, \H10178>>, <<\H1018A, \H1018B>>,
     <<\H10280, \H1029C>>, <<\H102A0, \H102D0>>, <<\H102E1, \H102FB>>,
     <<\H10300, \H10323>>, <<\H1032D, \H1034A>>, <<\H10350, \H10375>>,
     <<\H10380, \H1039D>>, <<\H103A0, \H103C3>>, <<\H103C8, \H103CF>>,
     <<\H103D1, \H103D5>>, <<\H10400, \H1049D>>, <<\H104A0, \H104A9>>,
     <<\H104B0, \H104D3>>, <<\H104D8, \H104FB>>, <<\H10500, \H10527>>,
     <<\H10530, \H10563>>, <<\H10570, \H1057A>>, <<\H1057C, \H1058A>>,
     <<\H1058C, \H10592>>, <<\H10594, \H10595>>, <<\H10597, \H105A1>>,
     <<\H105A3, \H105B1>>, <<\H105B3, \H105B9>>, <<\H105BB, \H105BC>>,
     <<\H10600, \H10736>>, <<\H10740, \H10755>>, <<\H10760, \H10767>>,
     <<\H10780, \H10785>>, <<\H10787, \H107B0>>, <<\H107B2, \H107BA>>,
     <<\H10800, \H10805>>, <<\H10808, \H10808>>, <<\H1080A, \H10835>>,
     <<\H10837, \H10838>>, <<\H1083C, \H1083C>>, <<\H1083F, \H10855>>,
     <<\H10858, \H10876>>, <<\H10879, \H1089E>>, <<\H108A7, \H108AF>>,
     <<\H108E0, \H108F2>>, <<\H108F4, \H108F5>>, <<\H108FB, \H1091B>>,
     <<\H10920, \H10939>>, <<\H10980, \H109B7>>, <<\H109BC, \H109CF>>,
     <<\H109D2, \H10A00>>, <<\H10A10, \H10A13>>, <<\H10A15, \H10A17>>,
     <<\H10A19, \H10A35>>, <<\H10A40, \H10A48>>, <<\H10A60, \H10A7E>>,
     <<\H10A80, \H10A9F>>, <<\H10AC0, \H10AC7>>, <<\H10AC9, \H10AE4>>,
     <<\H10AEB, \H10AEF>>, <<\H10B00, \H10B35>>, <<\H10B40, \H10B55>>,
     <<\H10B58, \H10B72>>, <<\H10B78, \H10B91>>, <<\H10BA9, \H10BAF>>,
     <<\H10C00, \H10C48>>, <<\H10C80, \H10CB2>>, <<\H10CC0, \H10CF2>>,
     <<\H10CFA, \H10D23>>, <<\H10D30, \H10D39>>, <<\H10E60, \H10E7E>>,
     <<\H10E80, \H10EA9>>, <<\H10EB0, \H10EB1>>, <<\H10F00, \H10F27>>,
     <<\H10F30, \H10F45>>, <<\H10F51, \H10F54>>, <<\H10F70, \H10F81>>,
     <<\H10FB0, \H10FCB>>, <<\H10FE0, \H10FF6>>, <<\H11003, \H11037>>,
     <<\H11052, \H1106F>>, <<\H11071, \H11072>>, <<\H11075, \H11075>>,
     <<\H11083, \H110AF>>, <<\H110D0, \H110E8>>, <<\H110F0, \H110F9>>,
     <<\H11103, \H11126>>, <<\H11136, \H1113F>>, <<\H11144, \H11144>>,
     <<\H11147, \H11147>>, <<\H11150, \H11172>>, <<\H11176, \H11176>>,
     <<\H11183, \H111B2>>, <<\H111C1, \H111C4>>, <<\H111D0, \H111DA>>,
     <<\H111DC, \H111DC>>, <<\H111E1, \H111F4>>, <<\H11200, \H11211>>,
     <<\H11213, \H1122B>>, <<\H11280, \H11286>>, <<\H11288, \H11288>>,
     <<\H1128A, \H1128D>>, <<\H1128F, \H1129D>>, <<\H1129F, \H112A8>>,
     <<\H112B0, \H112DE>>, <<\H112F0, \H112F9>>, <<\H11305, \H1130C>>,
     <<\H1130F, \H11310>>, <<\H11313, \H11328>>, <<\H1132A, \H11330>>,
     <<\H11332, \H11333>>, <<\H11335, \H11339>>, <<\H1133D, \H1133D>>,
     <<\H11350, \H11350>>, <<\H1135D, \H11361>>, <<\H11400, \H11434>>,
     <<\H11447, \H1144A>>, <<\H11450, \H11459>>, <<\H1145F, \H11461>>,
     <<\H11480, \H114AF>>, <<\H114C4, \H114C5>>, <<\H114C7, \H114C7>>,
     <<\H114D0, \H114D9>>, <<\H11580, \H115AE>>, <<\H115D8, \H115DB>>,
     <<\H11600, \H1162F>>, <<\H11644, \H11644>>, <<\H11650, \H11659>>,
     <<\H11680, \H116AA>>, <<\H116B8, \H116B8>>, <<\H116C0, \H116C9>>,
     <<\H11700, \H1171A>>, <<\H11730, \H1173B>>, <<\H11740, \H11746>>,
     <<\H11800, \H1182B>>, <<\H118A0, \H118F2>>, <<\H118FF, \H11906>>,
     <<\H11909, \H11909>>, <<\H1190C, \H11913>>, <<\H11915, \H11916>>,
     <<\H11918, \H1192F>>, <<\H1193F, \H1193F>>, <<\H11941, \H11941>>,
     <<\H11950, \H11959>>, <<\H119A0, \H119A7>>, <<\H119AA, \H119D0>>,
     <<\H119E1, \H119E1>>, <<\H119E3, \H119E3>>, <<\H11A00, \H11A00>>,
     <<\H11A0B, \H11A32>>, <<\H11A3A, \H11A3A>>, <<\H11A50, \H11A50>>,
     <<\H11A5C, \H11A89>>, <<\H11A9D, \H11A9D>>, <<\H11AB0, \H11AF8>>,
     <<\H11C00, \H11C08>>, <<\H11C0A, \H11C2E>>, <<\H11C40, \H11C40>>,
     <<\H11C50, \H11C6C>>, <<\H11C72, \H11C8F>>, <<\H11D00, \H11D06>>,
     <<\H11D08, \H11D09>>, <<\H11D0B, \H11D30>>, <<\H11D46, \H11D46>>,
     <<\H11D50, \H11D59>>, <<\H11D60, \H11D65>>, <<\H11D67, \H11D68>>,
     <<\H11D6A, \H11D89>>, <<\H11D98, \H11D98>>, <<\H11DA0, \H11DA9>>,
     <<\H11EE0, \H11EF2>>, <<\H11FB0, \H11FB0>>, <<\H11FC0, \H11FD4>>,
     <<\H12000, \H12399>>, <<\H12400, \H1246E>>, <<\H12480, \H12543>>,
     <<\H12F90, \H12FF0>>, <<\H13000, \H1342E>>, <<\H14400, \H14646>>,
     <<\H16800, \H16A38>>, <<\H16A40, \H16A5E>>, <<\H16A60, \H16A69>>,
     <<\H16A70, \H16ABE>>, <<\H16AC0, \H16AC9>>, <<\H16AD0, \H16AED>>,
     <<\H16B00, \H16B2F>>, <<\H16B40, \H16B43>>, <<\H16B50, \H16B59>>,
     <<\H16B5B, \H16B61>>, <<\H16B63, \H16B77>>, <<\H16B7D, \H16B8F>>,
     <<\H16E40, \H16E96>>, <<\H16F00, \H16F4A>>, <<\H16F50, \H16F50>>,
     <<\H16F93, \H16F9F>>, <<\H16FE0, \H16FE1>>, <<\H16FE3, \H16FE3>>,
     <<\H17000, \H187F7>>, <<\H18800, \H18CD5>>, <<\H18D00, \H18D08>>,
     <<\H1AFF0, \H1AFF3>>, <<\H1AFF5, \H1AFFB>>, <<\H1AFFD, \H1AFFE>>,
     <<\H1B000, \H1B122>>, <<\H1B150, \H1B152>>, <<\H1B164, \H1B167>>,
     <<\H1B170, \H1B2FB>>, <<\H1BC00, \H1BC6A>>, <<\H1BC70, \H1BC7C>>,
     <<\H1BC80, \H1BC88>>, <<\H1BC90, \H1BC99>>, <<\H1D2E0, \H1D2F3>>,
     <<\H1D360, \H1D378>>, <<\H1D400, \H1D454>>, <<\H1D456, \H1D49C>>,
     <<\H1D49E, \H1D49F>>, <<\H1D4A2, \H1D4A2>>, <<\H1D4A5, \H1D4A6>>,
     <<\H1D4A9, \H1D4AC>>, <<\H1D4AE, \H1D4B9>>, <<\H1D4BB, \H1D4BB>>,
     <<\H1D4BD, \H1D4C3>>, <<\H1D4C5, \H1D505>>, <<\H1D507, \H1D50A>>,
     <<\H1D50D, \H1D514>>, <<\H1D516, \H1D51C>>, <<\H1D51E, \H1D539>>,
     <<\H1D53B, \H1D53E>>, <<\H1D540, \H1D544>>, <<\H1D546, \H1D546>>,
     <<\H1D54A, \H1D550>>, <<\H1D552, \H1D6A5>>, <<\H1D6A8, \H1D6C0>>,
     <<\H1D6C2, \H1D6DA>>, <<\H1D6DC, \H1D6FA>>, <<\H1D6FC, \H1D714>>,
     <<\H1D716, \H1D734>>, <<\H1D736, \H1D74E>>, <<\H1D750, \H1D76E>>,
     <<\H1D770, \H1D788>>, <<\H1D78A, \H1D7A8>>, <<\H1D7AA, \H1D7C2>>,
     <<\H1D7C4, \H1D7CB>>, <<\H1D7CE, \H1D7FF>>, <<\H1DF00, \H1DF1E>>,
     <<\H1E100, \H1E12C>>, <<\H1E137, \H1E13D>>, <<\H1E140, \H1E149>>,
     <<\H1E14E, \H1E14E>>, <<\H1E290, \H1E2AD>>, <<\H1E2C0, \H1E2EB>>,
     <<\H1E2F0, \H1E2F9>>, <<\H1E7E0, \H1E7E6>>, <<\H1E7E8, \H1E7EB>>,
     <<\H1E7ED, \H1E7EE>>, <<\H1E7F0, \H1E7FE>>, <<\H1E800, \H1E8C4>>,
     <<\H1E8C7, \H1E8CF>>, <<\H1E900, \H1E943>>, <<\H1E94B, \H1E94B>>,
     <<\H1E950, \H1E959>>, <<\H1EC71, \H1ECAB>>, <<\H1ECAD, \H1ECAF>>,
     <<\H1ECB1, \H1ECB4>>, <<\H1ED01, \H1ED2D>>, <<\H1ED2F, \H1ED3D>>,
     <<\H1EE00, \H1EE03>>, <<\H1EE05, \H1EE1F>>, <<\H1EE21, \H1EE22>>,
     <<\H1EE24, \H1EE24>>, <<\H1EE27, \H1EE27>>, <<\H1EE29, \H1EE32>>,
     <<\H1EE34, \H1EE37>>, <<\H1EE39, \H1EE39>>, <<\H1EE3B, \H1EE3B>>,
     <<\H1EE42, \H1EE42>>, <<\H1EE47, \H1EE47>>, <<\H1EE49, \H1EE49>>,
     <<\H1EE4B, \H1EE4B>>, <<\H1EE4D, \H1EE4F>>, <<\H1EE51, \H1EE52>>,
     <<\H1EE54, \H1EE54>>, <<\H1EE57, \H1EE57>>, <<\H1EE59, \H1EE59>>,
     <<\H1EE5B, \H1EE5B>>, <<\H1EE5D, \H1EE5D>>, <<\H1EE5F, \H1EE5F>>,
     <<\H1EE61, \H1EE62>>, <<\H1EE64, \H1EE64>>, <<\H1EE67, \H1EE6A>>,
     <<\H1EE6C, \H1EE72>>, <<\H1EE74, \H1EE77>>, <<\H1EE79, \H1EE7C>>,
     <<\H1EE7E, \H1EE7E>>, <<\H1EE80, \H1EE89>>, <<\H1EE8B, \H1EE9B>>,
     <<\H1EEA1, \H1EEA3>>, <<\H1EEA5, \H1EEA9>>, <<\H1EEAB, \H1EEBB>>,
     <<\H1F100, \H1F10C>>, <<\H1FBF0, \H1FBF9>>, <<\H20000, \H2A6DF>>,
     <<\H2A700, \H2B738>>, <<\H2B740, \H2B81D>>, <<\H2B820, \H2CEA1>>,
     <<\H2CEB0, \H2EBE0>>, <<\H2F800, \H2FA1D>>, <<\H30000, \H3134A>>}
\* \w between U+0080 and U+00FF
WordLatin1 ==
    {"ª", "²", "³", "µ", "¹", "º", "¼", "½", "¾", "À", "Á", "Â", "Ã", "Ä",
     "Å", "Æ", "Ç", "È", "É", "Ê", "Ë", "Ì", "Í", "Î", "Ï", "Ð", "Ñ", "Ò",
     "Ó", "Ô", "Õ", "Ö", "Ø", "Ù", "Ú", "Û", "Ü", "Ý", "Þ", "ß", "à", "á",
     "â", "ã", "ä", "å", "æ", "ç", "è", "é", "ê", "ë", "ì", "í", "î", "ï",
     "ð", "ñ", "ò", "ó", "ô", "õ", "ö", "ø", "ù", "ú", "û", "ü", "ý", "þ", "ÿ"}
\* \w
Word ==
    Upper \cup Lower \cup AsciiDigit \cup {"_"} \cup WordLatin1
    \cup Chars(WordRanges)

Max(S) == CHOOSE x \in S : \A y \in S : y <= x
Min(S) == CHOOSE x \in S : \A y \in S : x <= y

\* the literal lit stands at position p of s
Lit(s, p, lit) ==
    /\ p >= 0
    /\ p + Len(lit) <= Len(s)
    /\ \A k \in 1..Len(lit) : s[p + k] = lit[k]

\* the character after position p is in class C
In(s, p, C) == p >= 0 /\ p < Len(s) /\ s[p + 1] \in C

\* length of the longest run of characters of C from position p (C*, greedy)
Run(s, p, C) ==
    IF p < 0 \/ p >= Len(s) THEN 0
    ELSE Max({n \in 0..(Len(s) - p) : \A k \in 1..n : s[p + k] \in C})

\* length of the longest run of characters outside C from position p
RunNot(s, p, C) ==
    IF p < 0 \/ p >= Len(s) THEN 0
    ELSE Max({n \in 0..(Len(s) - p) : \A k \in 1..n : s[p + k] \notin C})

\* length of the longest run of non-newline characters from position p (.*)
DotRun(s, p) == RunNot(s, p, {"\n"})

\* '$' without re.MULTILINE: the end, or just before a final newline
AtEnd(s, p) ==
    \/ p = Len(s)
    \/ p = Len(s) - 1 /\ s[Len(s)] = "\n"

\* str.strip()
strip(s) ==
    LET keep == {i \in 1..Len(s) : s[i] \notin Space}
    IN  IF keep = {} THEN <<>> ELSE SubSeq(s, Min(keep), Max(keep))

\* str.join: the parts separated by sep
RECURSIVE join(_, _)
join(sep, parts) ==
    IF parts = <<>> THEN <<>>
    ELSE IF Len(parts) = 1 THEN parts[1]
    ELSE parts[1] \o sep \o join(sep, Tail(parts))

\* concatenation of a sequence of strings
RECURSIVE Concat(_)
Concat(parts) == IF parts = <<>> THEN <<>> ELSE parts[1] \o Concat(Tail(parts))

----------------------------------------------------------------------------
(* clean_description                                                       *)

\* (\s+.*)?$ from position q: the position where the match ends, -1 if none.
\* The optional group is tried first, \s+ and .* longest first.
StatusTailEnd(s, q) ==
    LET ends(k) == {m \in 0..DotRun(s, q + k) : AtEnd(s, q + k + m)}
        ks == {k \in 1..Run(s, q, Space) : ends(k) # {}}
    IN  IF ks # {} THEN q + Max(ks) + Max(ends(Max(ks)))
        ELSE IF AtEnd(s, q) THEN q
        ELSE -1

\* \s+[MC]\s+[MCN](\s+.*)?$ matched from position i: its end, -1 if none
StatusEnd(s, i) ==
    LET a == Run(s, i, Space)
        b == Run(s, i + a + 1, Space)
    IN  IF /\ a >= 1
           /\ In(s, i + a, {"M", "C"})
           /\ b >= 1
           /\ In(s, i + a + 1 + b, {"M", "C", "N"})
        THEN StatusTailEnd(s, i + a + b + 2)
        ELSE -1

\* re.sub(r'\s+[MC]\s+[MCN](\s+.*)?$', '', s): the leftmost match is removed
\* (a match ends at '$', so no second match follows it)
SubStatus(s) ==
    LET starts == {i \in 0..Len(s) : StatusEnd(s, i) # -1}
    IN  IF starts = {} THEN s
        ELSE SubSeq(s, 1, Min(starts)) \o
             SubSeq(s, StatusEnd(s, Min(starts)) + 1, Len(s))

kw_NOT == <<"N","O","T">>
kw_USED == <<"U","S","E","D">>

\* \s+NOT\s+USED$ matched from position i: its end, -1 if none
NotUsedEnd(s, i) ==
    LET a == Run(s, i, Space)
        b == Run(s, i + a + 3, Space)
        e == i + a + 3 + b + 4
    IN  IF /\ a >= 1
           /\ Lit(s, i + a, kw_NOT)
           /\ b >= 1
           /\ Lit(s, i + a + 3 + b, kw_USED)
           /\ AtEnd(s, e)
        THEN e
        ELSE -1

\* re.sub(r'\s+NOT\s+USED$', '', s)
SubNotUsed(s) ==
    LET starts == {i \in 0..Len(s) : NotUsedEnd(s, i) # -1}
    IN  IF starts = {} THEN s
        ELSE SubSeq(s, 1, Min(starts)) \o
             SubSeq(s, NotUsedEnd(s, Min(starts)) + 1, Len(s))

clean_description(description) ==
    IF description = <<>> THEN <<>>
    ELSE strip(SubNotUsed(SubStatus(description)))

----------------------------------------------------------------------------
(* Literals of the source's patterns                                       *)

kw_Segment == <<"S","e","g","m","e","n","t",":">>
kw_Cons == <<"C","o","n","s",".">>
kw_No == <<"N","o",".",":">>
kw_Pos == <<"P","o","s",".",":">>
kw_Level == <<"L","e","v","e","l",":">>
SP == <<" ">>
NL == <<"\n">>

\* the mnemonics of the fourth detection rule
DetectMnemonics ==
    {<<"U","N","H">>, <<"B","G","M">>, <<"D","T","M">>,
     <<"N","A","D">>, <<"L","I","N">>, <<"M","O","A">>}

\* no newline among the characters between positions p and q
NoNL(s, p, q) == \A x \in (p + 1)..q : s[x] # "\n"

----------------------------------------------------------------------------
(* detect_pdf_format                                                       *)

\* re.search(r'Segment:\s+[A-Z]{3}\s+Cons\.\s*No\.:', text)
VdaMarker(text) ==
    \E i \in 0..Len(text) :
        LET a == Run(text, i + 8, Space)
            m == i + 8 + a
            b == Run(text, m + 3, Space)
            c == Run(text, m + 3 + b + 5, Space)
        IN  /\ Lit(text, i, kw_Segment)
            /\ a >= 1
            /\ \A k \in 0..2 : In(text, m + k, Upper)
            /\ b >= 1
            /\ Lit(text, m + 3 + b, kw_Cons)
            /\ Lit(text, m + 3 + b + 5 + c, kw_No)

\* re.search(r'Segment:.*Pos\.:\s*\d+.*Level:', text)
FaureciaLine(text) ==
    \E i \in 0..Len(text) :
        /\ Lit(text, i, kw_Segment)
        /\ \E j \in (i + 8)..Len(text) :
              LET c == Run(text, j + 5, Space)
              IN  /\ NoNL(text, i + 8, j)
                  /\ Lit(text, j, kw_Pos)
                  /\ In(text, j + 5 + c, Digit)
                  /\ \E k \in (j + 5 + c + 1)..Len(text) :
                        /\ NoNL(text, j + 5 + c + 1, k)
                        /\ Lit(text, k, kw_Level)

\* re.search(r'Segment:\s+Pos\.:\s*\d+\s+Level:', text)
FaureciaSplit(text) ==
    \E i \in 0..Len(text) :
        LET a == Run(text, i + 8, Space)
            j == i + 8 + a
            c == Run(text, j + 5, Space)
            d == Run(text, j + 5 + c, Digit)
            e == Run(text, j + 5 + c + d, Space)
        IN  /\ Lit(text, i, kw_Segment)
            /\ a >= 1
            /\ Lit(text, j, kw_Pos)
            /\ d >= 1
            /\ e >= 1
            /\ Lit(text, j + 5 + c + d + e, kw_Level)

\* 'Pos.:' in text and re.search(r'\b(UNH|BGM|DTM|NAD|LIN|MOA)\b', text)
FaureciaWord(text) ==
    /\ \E i \in 0..Len(text) : Lit(text, i, kw_Pos)
    /\ \E i \in 0..Len(text) : \E m \in DetectMnemonics :
          /\ Lit(text, i, m)
          /\ ~In(text, i - 1, Word)
          /\ ~In(text, i + 3, Word)

\* (variant: one page more is inspected)
DetectPages_Eleven == 10 + 1

\* the number of pages detect_pdf_format inspects (pdf.pages[:10])
DetectPages == 10

\* the loop of detect_pdf_format from page n on: the first inspected page that
\* matches a rule decides
RECURSIVE DetectFrom(_, _)
DetectFrom(pages, n) ==
    IF n > Len(pages) \/ n > DetectPages THEN "faurecia"
    ELSE IF VdaMarker(pages[n].text) THEN "vda4932"
    ELSE IF FaureciaLine(pages[n].text) THEN "faurecia"
    ELSE IF FaureciaSplit(pages[n].text) THEN "faurecia"
    ELSE IF FaureciaWord(pages[n].text) THEN "faurecia"
    ELSE DetectFrom(pages, n + 1)

\* a page without text (extract_text() returns None or '') has text <<>>
detect_pdf_format(pages) == DetectFrom(pages, 1)

----------------------------------------------------------------------------
(* The segment map and the objects it holds                                *)
(*                                                                         *)
(* segments_dict is a Python dict: a sequence of entries [key, val] in     *)
(* insertion order, val = [segment, description, elements].  The element   *)
(* and group dicts are objects with identity: heap[id] is the object id,   *)
(* an element [champ, description, format, valeur, usage] or a group       *)
(* [groupe, description, champs]; "elements" and "champs" are lists of     *)
(* identities.                                                             *)

None == <<>>

DictHas(d, k) == \E i \in 1..Len(d) : d[i].key = k
DictIndex(d, k) == Min({i \in 1..Len(d) : d[i].key = k})

\* d[k] = v
DictSet(d, k, v) ==
    IF DictHas(d, k) THEN [d EXCEPT ![DictIndex(d, k)].val = v]
    ELSE Append(d, [key |-> k, val |-> v])

IsGroup(obj) == "groupe" \in DOMAIN obj
IsElement(obj) == "champ" \in DOMAIN obj

\* re.match(r'^[SC]\d{3}$', code)
IsGroupCode(code) ==
    /\ In(code, 0, {"S", "C"})
    /\ \A k \in 1..3 : In(code, k, Digit)
    /\ AtEnd(code, 4)

\* re.match(r'^\d{4}$', code)
IsElementCode(code) ==
    /\ \A k \in 0..3 : In(code, k, Digit)
    /\ AtEnd(code, 4)

\* [str(cell).strip() if cell else '' for cell in row]; a None cell is <<>>
row_clean(row) == [i \in 1..Len(row) |-> strip(row[i])]

\* rc[n] if len(rc) > n else ''
Col(rc, n) == IF Len(rc) > n THEN rc[n + 1] ELSE <<>>

\* str.split(): the words between runs of whitespace
RECURSIVE split(_)
split(s) ==
    LET t == strip(s)
        n == RunNot(t, 0, Space)
    IN  IF t = <<>> THEN <<>>
        ELSE <<SubSeq(t, 1, n)>> \o split(SubSeq(t, n + 1, Len(t)))

----------------------------------------------------------------------------
(* _parse_faurecia_table                                                   *)

\* re.search(r'Segment:\s*([A-Z]{3})', row_text): group 1 of the leftmost
\* match, None if there is none
SegmentMatch(row_text) ==
    LET at(i) == i + 8 + Run(row_text, i + 8, Space)
        starts == {i \in 0..Len(row_text) :
                      /\ Lit(row_text, i, kw_Segment)
                      /\ \A k \in 0..2 : In(row_text, at(i) + k, Upper)}
    IN  IF starts = {} THEN None
        ELSE SubSeq(row_text, at(Min(starts)) + 1, at(Min(starts)) + 3)

\* [\w\s/]
DescChar == Word \cup Space \cup {"/"}

\* re.search(r'Pos\.:\s*\d+.*?([A-Z][\w\s/]+)$', row_text): group 1 of the
\* leftmost match ('.*?' shortest first, '[\w\s/]+' longest first), '' if none
DescMatch(row_text) ==
    LET from(i) == i + 5 + Run(row_text, i + 5, Space)
                     + Run(row_text, i + 5 + Run(row_text, i + 5, Space), Digit)
        len(g) == {r \in 1..Run(row_text, g + 1, DescChar) : AtEnd(row_text, g + 1 + r)}
        gs(i) == {g \in from(i)..Len(row_text) :
                     /\ NoNL(row_text, from(i), g)
                     /\ In(row_text, g, Upper)
                     /\ len(g) # {}}
        starts == {i \in 0..Len(row_text) :
                      /\ Lit(row_text, i, kw_Pos)
                      /\ In(row_text, i + 5 + Run(row_text, i + 5, Space), Digit)
                      /\ gs(i) # {}}
    IN  IF starts = {} THEN <<>>
        ELSE LET g == Min(gs(Min(starts)))
             IN  SubSeq(row_text, g + 1, g + 1 + Max(len(g)))

\* re.match(r'^[A-Z0-9]+\s*=', usage)
FaureciaCodedValue(usage) ==
    LET n == Run(usage, 0, Upper \cup AsciiDigit)
    IN  n >= 1 /\ Lit(usage, n + Run(usage, n, Space), <<"=">>)

\* the look-ahead loop of the Faurecia parser from row next_idx (1-based) on:
\* the usage texts it appends
RECURSIVE FaureciaLookahead(_, _)
FaureciaLookahead(table, next_idx) ==
    IF next_idx > Len(table) THEN <<>>
    ELSE LET next_row == table[next_idx]
             next_row_clean == row_clean(next_row)
             next_code == Col(next_row_clean, 0)
             next_usage == Col(next_row_clean, 7)
         IN  IF Len(next_row) < 8 THEN <<>>
             ELSE IF next_code # <<>> /\ (IsElementCode(next_code) \/ IsGroupCode(next_code))
             THEN <<>>
             ELSE IF next_usage # <<>> /\ FaureciaCodedValue(strip(next_usage))
             THEN <<strip(next_usage)>> \o FaureciaLookahead(table, next_idx + 1)
             ELSE <<>>

\* usage_clean of the row row_idx whose usage column holds usage_desc
FaureciaUsage(table, idx, usage_desc) ==
    IF usage_desc = <<>> THEN <<>>
    ELSE join(NL, <<strip(usage_desc)>> \o FaureciaLookahead(table, idx + 1))

\* (variant: the header leaves the open group open)
FaureciaHeader_KeepGroup(st, mnemonic, row_text) ==
    [st EXCEPT
        !.dict = IF DictHas(st.dict, mnemonic) THEN st.dict
                 ELSE DictSet(st.dict, mnemonic,
                              [segment |-> mnemonic,
                               description |-> clean_description(strip(DescMatch(row_text))),
                               elements |-> <<>>]),
        !.current_segment = mnemonic]

\* a segment header row: the segment is created if it is new
FaureciaHeader(st, mnemonic, row_text) ==
    [st EXCEPT
        !.dict = IF DictHas(st.dict, mnemonic) THEN st.dict
                 ELSE DictSet(st.dict, mnemonic,
                              [segment |-> mnemonic,
                               description |-> clean_description(strip(DescMatch(row_text))),
                               elements |-> <<>>]),
        !.current_segment = mnemonic,
        !.current_group = 0]

\* (variant: the new group becomes current but joins no segment)
FaureciaGroup_Orphan(st, group, where) ==
    [st EXCEPT
        !.heap = Append(st.heap, group),
        !.origin = Append(st.origin, where),
        !.current_group = Len(st.heap) + 1]

\* a group row: the new group joins the current segment and becomes current
FaureciaGroup(st, group, where) ==
    [st EXCEPT
        !.heap = Append(st.heap, group),
        !.origin = Append(st.origin, where),
        !.dict[DictIndex(st.dict, st.current_segment)].val.elements =
            Append(@, Len(st.heap) + 1),
        !.current_group = Len(st.heap) + 1]

\* an element row: the new element joins the current group if there is one,
\* the current segment otherwise
FaureciaElement(st, element, where) ==
    IF st.current_group # 0
    THEN [st EXCEPT
            !.heap = [Append(st.heap, element) EXCEPT
                         ![st.current_group].champs = Append(@, Len(st.heap) + 1)],
            !.origin = Append(st.origin, where)]
    ELSE [st EXCEPT
            !.heap = Append(st.heap, element),
            !.origin = Append(st.origin, where),
            !.dict[DictIndex(st.dict, st.current_segment)].val.elements =
                Append(@, Len(st.heap) + 1)]

\* one pass of the row loop of _parse_faurecia_table, on row idx (1-based) of
\* table; st = [dict, heap, origin, current_segment, current_group]
FaureciaRow(st, table, idx, where) ==
    LET row == table[idx]
        rc == row_clean(row)
        row_text == join(SP, rc)
        code == Col(rc, 0)
        description == clean_description(Col(rc, 1))
        format_clean == join(SP, split(Col(rc, 4)))
        valeur_clean == strip(Col(rc, 6))
        usage_clean == FaureciaUsage(table, idx, Col(rc, 7))
        at == [where EXCEPT !.segment = st.current_segment]
    IN  IF row = <<>> THEN st
        ELSE IF SegmentMatch(row_text) # None
        THEN FaureciaHeader(st, SegmentMatch(row_text), row_text)
        ELSE IF st.current_segment = None THEN st
        ELSE IF IsGroupCode(code)
        THEN FaureciaGroup(st, [groupe |-> code, description |-> description,
                                champs |-> <<>>], at)
        ELSE IF IsElementCode(code)
        THEN FaureciaElement(st, [champ |-> code, description |-> description,
                                  format |-> format_clean, valeur |-> valeur_clean,
                                  usage |-> usage_clean], at)
        ELSE st

----------------------------------------------------------------------------
(* extract_vda4932_format and _parse_vda_table                             *)

\* r'Segment:\s+([A-Z]{3})\s+Cons\.\s*No\.:\s*(\d+)\s+Level:\s*(\d+)\s+(.*?)(?=\n|$)'
\* matched from position i: [ok, code, description, end]
VdaHeaderAt(text, i) ==
    LET a == Run(text, i + 8, Space)
        m == i + 8 + a
        b == Run(text, m + 3, Space)
        c == Run(text, m + 3 + b + 5, Space)
        n == m + 3 + b + 5 + c + 4
        d == Run(text, n, Space)
        e == Run(text, n + d, Digit)
        f == Run(text, n + d + e, Space)
        l == n + d + e + f + 6
        g == Run(text, l, Space)
        h == Run(text, l + g, Digit)
        w == Run(text, l + g + h, Space)
        q == l + g + h + w
        ok == /\ Lit(text, i, kw_Segment)
              /\ a >= 1
              /\ \A k \in 0..2 : In(text, m + k, Upper)
              /\ b >= 1
              /\ Lit(text, m + 3 + b, kw_Cons)
              /\ Lit(text, m + 3 + b + 5 + c, kw_No)
              /\ e >= 1
              /\ f >= 1
              /\ Lit(text, n + d + e + f, kw_Level)
              /\ h >= 1
              /\ w >= 1
    IN  IF ok
        THEN [ok |-> TRUE,
              code |-> SubSeq(text, m + 1, m + 3),
              description |-> SubSeq(text, q + 1, q + DotRun(text, q)),
              end |-> q + DotRun(text, q)]
        ELSE [ok |-> FALSE, code |-> None, description |-> <<>>, end |-> i]

\* re.finditer over text from position p on: the matches, left to right
RECURSIVE VdaHeaders(_, _)
VdaHeaders(text, p) ==
    LET starts == {i \in p..Len(text) : VdaHeaderAt(text, i).ok}
    IN  IF starts = {} THEN <<>>
        ELSE <<VdaHeaderAt(text, Min(starts))>> \o
             VdaHeaders(text, VdaHeaderAt(text, Min(starts)).end)

\* the loop over the segment matches of one page: a segment is created for
\* each mnemonic that is new; st = [dict, heap, origin, last_segment,
\* current_group, declared]
RECURSIVE VdaDeclare(_, _)
VdaDeclare(st, matches) ==
    IF matches = <<>> THEN st
    ELSE LET segment_code == matches[1].code
             description == strip(matches[1].description)
         IN  VdaDeclare(
                 [st EXCEPT
                     !.dict = IF DictHas(st.dict, segment_code) THEN st.dict
                              ELSE DictSet(st.dict, segment_code,
                                           [segment |-> segment_code,
                                            description |-> description,
                                            elements |-> <<>>]),
                     !.declared = segment_code],
                 Tail(matches))

\* re.match(r'^([SC]?\d{3,4})\s+(.+)$', col0): [ok, code, description];
\* \d{3,4} and \s+ and .+ longest first
VdaCodeMatch(col0) ==
    LET o == IF In(col0, 0, {"S", "C"}) THEN 1 ELSE 0
        rest(n, k) == {m \in 1..DotRun(col0, o + n + k) : AtEnd(col0, o + n + k + m)}
        ks(n) == {k \in 1..Run(col0, o + n, Space) : rest(n, k) # {}}
        ns == {n \in {3, 4} : (\A j \in 0..(n - 1) : In(col0, o + j, Digit)) /\ ks(n) # {}}
    IN  IF ns = {} THEN [ok |-> FALSE, code |-> <<>>, description |-> <<>>]
        ELSE LET n == Max(ns)
                 k == Max(ks(n))
             IN  [ok |-> TRUE,
                  code |-> SubSeq(col0, 1, o + n),
                  description |-> SubSeq(col0, o + n + k + 1,
                                         o + n + k + Max(rest(n, k)))]

\* re.match(r"^['\"]?[A-Z0-9]+['\"]?\s*=", usage)
VdaCodedValue(usage) ==
    LET q1 == IF In(usage, 0, {"'", "\""}) THEN 1 ELSE 0
        n == Run(usage, q1, Upper \cup AsciiDigit)
        q2 == IF In(usage, q1 + n, {"'", "\""}) THEN 1 ELSE 0
        p == q1 + n + q2
    IN  n >= 1 /\ Lit(usage, p + Run(usage, p, Space), <<"=">>)

\* re.match(r'^[A-Z][a-z]+\s+[A-Z]', usage)
VdaCapitalized(usage) ==
    LET n == Run(usage, 1, Lower)
        w == Run(usage, 1 + n, Space)
    IN  /\ In(usage, 0, Upper)
        /\ n >= 1
        /\ w >= 1
        /\ In(usage, 1 + n + w, Upper)

\* S.Format
kw_SFormat == <<"S",".","F","o","r","m","a","t">>
\* Segment can/must
kw_SegmentCanMust == <<"S","e","g","m","e","n","t"," ","c","a","n","/","m","u","s","t">>

\* the look-ahead loop of the VDA parser from row next_idx (1-based) on
RECURSIVE VdaLookahead(_, _)
VdaLookahead(table, next_idx) ==
    IF next_idx > Len(table) THEN <<>>
    ELSE LET next_row == table[next_idx]
             next_row_clean == row_clean(next_row)
             next_code == Col(next_row_clean, 0)
             next_usage == Col(next_row_clean, 3)
         IN  IF Len(next_row) < 4 THEN <<>>
             ELSE IF next_code # <<>> /\ (IsElementCode(next_code) \/ IsGroupCode(next_code))
             THEN <<>>
             ELSE IF /\ next_usage # <<>>
                     /\ \/ VdaCodedValue(strip(next_usage))
                        \/ VdaCapitalized(strip(next_usage))
             THEN <<strip(next_usage)>> \o VdaLookahead(table, next_idx + 1)
             ELSE <<>>

\* usage_clean of the row idx whose usage column holds col3
VdaUsage(table, idx, col3) ==
    IF col3 = <<>> \/ strip(col3) = <<"-", "-">> THEN <<>>
    ELSE join(NL, <<strip(col3)>> \o VdaLookahead(table, idx + 1))

\* a group row: the new group joins the last segment and becomes current
VdaGroup(st, group, where) ==
    [st EXCEPT
        !.heap = Append(st.heap, group),
        !.origin = Append(st.origin, where),
        !.dict[st.last_segment].val.elements = Append(@, Len(st.heap) + 1),
        !.current_group = Len(st.heap) + 1]

\* an element row: the new element joins the current group if there is one,
\* the last segment otherwise
VdaElement(st, element, where) ==
    IF st.current_group # 0
    THEN [st EXCEPT
            !.heap = [Append(st.heap, element) EXCEPT
                         ![st.current_group].champs = Append(@, Len(st.heap) + 1)],
            !.origin = Append(st.origin, where)]
    ELSE [st EXCEPT
            !.heap = Append(st.heap, element),
            !.origin = Append(st.origin, where),
            !.dict[st.last_segment].val.elements = Append(@, Len(st.heap) + 1)]

\* one pass of the row loop of _parse_vda_table, on row idx (1-based) of table
VdaRow(st, table, idx, where) ==
    LET row == table[idx]
        rc == row_clean(row)
        col0 == Col(rc, 0)
        code_match == VdaCodeMatch(col0)
        code == code_match.code
        description == clean_description(strip(code_match.description))
        format_str == strip(Col(rc, 1))
        valeur == strip(Col(rc, 2))
        usage_clean == VdaUsage(table, idx, Col(rc, 3))
        at == [where EXCEPT !.segment = st.declared]
    IN  IF Len(row) < 2 THEN st
        ELSE IF \/ col0 = <<>>
                \/ Lit(col0, 0, kw_SFormat)
                \/ \E i \in 0..Len(col0) : Lit(col0, i, kw_SegmentCanMust)
        THEN st
        ELSE IF ~code_match.ok THEN st
        ELSE IF IsGroupCode(code)
        THEN VdaGroup(st, [groupe |-> code, description |-> description,
                           champs |-> <<>>], at)
        ELSE IF IsElementCode(code)
        THEN VdaElement(st, [champ |-> code, description |-> description,
                             format |-> format_str, valeur |-> valeur,
                             usage |-> usage_clean], at)
        ELSE st

----------------------------------------------------------------------------
(* add_standard_descriptions                                               *)

standard_descriptions == <<
    \* UNB: Interchange header
    [key |-> <<"U","N","B">>,
     val |-> <<"I","n","t","e","r","c","h","a","n","g","e"," ","h","e","a","d","e","r">>],
    \* UNH: Message header
    [key |-> <<"U","N","H">>,
     val |-> <<"M","e","s","s","a","g","e"," ","h","e","a","d","e","r">>],
    \* BGM: Beginning of message
    [key |-> <<"B","G","M">>,
     val |-> <<"B","e","g","i","n","n","i","n","g"," ","o","f"," ","m","e","s","s","a","g","e">>],
    \* DTM: Date/time/period
    [key |-> <<"D","T","M">>,
     val |-> <<"D","a","t","e","/","t","i","m","e","/","p","e","r","i","o","d">>],
    \* RFF: Reference
    [key |-> <<"R","F","F">>,
     val |-> <<"R","e","f","e","r","e","n","c","e">>],
    \* NAD: Name and address
    [key |-> <<"N","A","D">>,
     val |-> <<"N","a","m","e"," ","a","n","d"," ","a","d","d","r","e","s","s">>],
    \* CTA: Contact information
    [key |-> <<"C","T","A">>,
     val |-> <<"C","o","n","t","a","c","t"," ","i","n","f","o","r","m","a","t","i","o","n">>],
    \* COM: Communication contact
    [key |-> <<"C","O","M">>,
     val |-> <<"C","o","m","m","u","n","i","c","a","t","i","o","n"," ","c","o","n","t","a","c","t">>],
    \* TAX: Duty/tax/fee details
    [key |-> <<"T","A","X">>,
     val |-> <<"D","u","t","y","/","t","a","x","/","f","e","e"," ","d","e","t","a","i","l","s">>],
    \* CUX: Currencies
    [key |-> <<"C","U","X">>,
     val |-> <<"C","u","r","r","e","n","c","i","e","s">>],
    \* PAT: Payment terms basis
    [key |-> <<"P","A","T">>,
     val |-> <<"P","a","y","m","e","n","t"," ","t","e","r","m","s"," ","b","a","s","i","s">>],
    \* PCD: Percentage details
    [key |-> <<"P","C","D">>,
     val |-> <<"P","e","r","c","e","n","t","a","g","e"," ","d","e","t","a","i","l","s">>],
    \* MOA: Monetary amount
    [key |-> <<"M","O","A">>,
     val |-> <<"M","o","n","e","t","a","r","y"," ","a","m","o","u","n","t">>],
    \* LIN: Line item
    [key |-> <<"L","I","N">>,
     val |-> <<"L","i","n","e"," ","i","t","e","m">>],
    \* PIA: Additional product id
    [key |-> <<"P","I","A">>,
     val |-> <<"A","d","d","i","t","i","o","n","a","l"," ","p","r","o","d","u","c","t"," ","i","d">>],
    \* IMD: Item description
    [key |-> <<"I","M","D">>,
     val |-> <<"I","t","e","m"," ","d","e","s","c","r","i","p","t","i","o","n">>],
    \* QTY: Quantity
    [key |-> <<"Q","T","Y">>,
     val |-> <<"Q","u","a","n","t","i","t","y">>],
    \* ALI: Additional information
    [key |-> <<"A","L","I">>,
     val |-> <<"A","d","d","i","t","i","o","n","a","l"," ","i","n","f","o","r","m","a","t","i","o","n">>],
    \* GIN: Goods identity number
    [key |-> <<"G","I","N">>,
     val |-> <<"G","o","o","d","s"," ","i","d","e","n","t","i","t","y"," ","n","u","m","b","e","r">>],
    \* GIR: Related identification numbers
    [key |-> <<"G","I","R">>,
     val |-> <<"R","e","l","a","t","e","d"," ","i","d","e","n","t","i","f","i","c","a","t","i","o","n"," ","n","u","m","b","e","r","s">>],
    \* QVR: Quantity variances
    [key |-> <<"Q","V","R">>,
     val |-> <<"Q","u","a","n","t","i","t","y"," ","v","a","r","i","a","n","c","e","s">>],
    \* DOC: Document/message details
    [key |-> <<"D","O","C">>,
     val |-> <<"D","o","c","u","m","e","n","t","/","m","e","s","s","a","g","e"," ","d","e","t","a","i","l","s">>],
    \* PRI: Price details
    [key |-> <<"P","R","I">>,
     val |-> <<"P","r","i","c","e"," ","d","e","t","a","i","l","s">>],
    \* APR: Additional price information
    [key |-> <<"A","P","R">>,
     val |-> <<"A","d","d","i","t","i","o","n","a","l"," ","p","r","i","c","e"," ","i","n","f","o","r","m","a","t","i","o","n">>],
    \* RNG: Range details
    [key |-> <<"R","N","G">>,
     val |-> <<"R","a","n","g","e"," ","d","e","t","a","i","l","s">>],
    \* LOC: Place/location identification
    [key |-> <<"L","O","C">>,
     val |-> <<"P","l","a","c","e","/","l","o","c","a","t","i","o","n"," ","i","d","e","n","t","i","f","i","c","a","t","i","o","n">>],
    \* TOD: Terms of delivery or transport
    [key |-> <<"T","O","D">>,
     val |-> <<"T","e","r","m","s"," ","o","f"," ","d","e","l","i","v","e","r","y"," ","o","r"," ","t","r","a","n","s","p","o","r","t">>],
    \* PAC: Package
    [key |-> <<"P","A","C">>,
     val |-> <<"P","a","c","k","a","g","e">>],
    \* PCI: Package identification
    [key |-> <<"P","C","I">>,
     val |-> <<"P","a","c","k","a","g","e"," ","i","d","e","n","t","i","f","i","c","a","t","i","o","n">>],
    \* ALC: Allowance or charge
    [key |-> <<"A","L","C">>,
     val |-> <<"A","l","l","o","w","a","n","c","e"," ","o","r"," ","c","h","a","r","g","e">>],
    \* RCS: Requirements and conditions
    [key |-> <<"R","C","S">>,
     val |-> <<"R","e","q","u","i","r","e","m","e","n","t","s"," ","a","n","d"," ","c","o","n","d","i","t","i","o","n","s">>],
    \* UNS: Section control
    [key |-> <<"U","N","S">>,
     val |-> <<"S","e","c","t","i","o","n"," ","c","o","n","t","r","o","l">>],
    \* CNT: Control total
    [key |-> <<"C","N","T">>,
     val |-> <<"C","o","n","t","r","o","l"," ","t","o","t","a","l">>],
    \* UNT: Message trailer
    [key |-> <<"U","N","T">>,
     val |-> <<"M","e","s","s","a","g","e"," ","t","r","a","i","l","e","r">>],
    \* UNZ: Interchange trailer
    [key |-> <<"U","N","Z">>,
     val |-> <<"I","n","t","e","r","c","h","a","n","g","e"," ","t","r","a","i","l","e","r">>],
    \* FTX: Free text
    [key |-> <<"F","T","X">>,
     val |-> <<"F","r","e","e"," ","t","e","x","t">>],
    \* FII: Financial institution information
    [key |-> <<"F","I","I">>,
     val |-> <<"F","i","n","a","n","c","i","a","l"," ","i","n","s","t","i","t","u","t","i","o","n"," ","i","n","f","o","r","m","a","t","i","o","n">>],
    \* MEA: Measurements
    [key |-> <<"M","E","A">>,
     val |-> <<"M","e","a","s","u","r","e","m","e","n","t","s">>],
    \* PAI: Payment instructions
    [key |-> <<"P","A","I">>,
     val |-> <<"P","a","y","m","e","n","t"," ","i","n","s","t","r","u","c","t","i","o","n","s">>]
>>

\* (variant: the standard name replaces whatever description there is)
EnrichDescription_Overwrite(segment_code, description) ==
    IF DictHas(standard_descriptions, segment_code)
    THEN standard_descriptions[DictIndex(standard_descriptions, segment_code)].val
    ELSE IF description # <<>> THEN clean_description(description)
    ELSE description

\* the body of the loop of add_standard_descriptions for one segment: the
\* description the segment has afterwards
EnrichDescription(segment_code, description) ==
    LET cleaned == IF description # <<>> THEN clean_description(description)
                   ELSE description
    IN  IF /\ cleaned = <<>> \/ cleaned \in {<<"0">>, <<"1">>, <<>>}
           /\ DictHas(standard_descriptions, segment_code)
        THEN standard_descriptions[DictIndex(standard_descriptions, segment_code)].val
        ELSE cleaned

add_standard_descriptions(d) ==
    [i \in 1..Len(d) |->
        [d[i] EXCEPT !.val.description = EnrichDescription(d[i].key, @)]]

----------------------------------------------------------------------------
(* extract_all's result and save_to_json                                   *)

Alphabet == <<"A","B","C","D","E","F","G","H","I","J","K","L","M",
              "N","O","P","Q","R","S","T","U","V","W","X","Y","Z">>

\* code point order of the capital letters (segment keys are [A-Z]{3})
Ord(c) == Min({i \in 1..Len(Alphabet) : Alphabet[i] = c})

\* a < b for Python strings of capital letters
RECURSIVE StrLess(_, _)
StrLess(a, b) ==
    IF b = <<>> THEN FALSE
    ELSE IF a = <<>> THEN TRUE
    ELSE IF a[1] # b[1] THEN Ord(a[1]) < Ord(b[1])
    ELSE StrLess(Tail(a), Tail(b))

\* sorted(keys)
RECURSIVE sorted(_)
sorted(keys) ==
    IF keys = <<>> THEN <<>>
    ELSE LET least == Min({i \in 1..Len(keys) :
                              \A j \in 1..Len(keys) : ~StrLess(keys[j], keys[i])})
         IN  <<keys[least]>> \o
             sorted(SubSeq(keys, 1, least - 1) \o SubSeq(keys, least + 1, Len(keys)))

\* list(self.segments_dict.keys())
DictKeys(d) == [i \in 1..Len(d) |-> d[i].key]

\* list(self.segments_dict.values()): what extract_all returns
DictValues(d) == [i \in 1..Len(d) |-> d[i].val]

\* [self.segments_dict[key] for key in sorted(self.segments_dict.keys())]
segments_list(d) ==
    LET keys == sorted(DictKeys(d))
    IN  [i \in 1..Len(keys) |-> d[DictIndex(d, keys[i])].val]

----------------------------------------------------------------------------
(* The pipeline: extract_all, then save_to_json (process_pdf)              *)

\* the state after AdaptiveEDIExtractor(pdf_path), before extract_all
Constructed(doc) ==
    /\ pdf = doc
    /\ pc = "detect"
    /\ pdf_format = "None"
    /\ segments_dict = <<>>
    /\ heap = <<>>
    /\ page_num = 1
    /\ table_idx = 1
    /\ row_idx = 1
    /\ current_segment = None
    /\ current_group = 0
    /\ last_segment = 0
    /\ returned = <<>>
    /\ json_out = <<>>
    /\ declared = None
    /\ origin = <<>>
    /\ enrich_in = <<>>
    /\ norm_arg = <<>>
    /\ norm_hist = <<>>

----------------------------------------------------------------------------
(* The documents the pipeline is run on                                    *)

\* Segment: NAD Pos.: 040 Name and address
s_SegNAD ==
    <<"S","e","g","m","e","n","t",":"," ","N","A","D"," ","P","o","s",".",":"," ","0","4","0"," ","N","a","m","e"," ","a","n","d"," ","a","d","d","r","e","s","s">>
\* Segment: BGM Pos.: 020 Begin NOT USED NOT USED
s_SegBGM ==
    <<"S","e","g","m","e","n","t",":"," ","B","G","M"," ","P","o","s",".",":"," ","0","2","0"," ","B","e","g","i","n"," ","N","O","T"," ","U","S","E","D"," ","N","O","T"," ","U","S","E","D">>
\* Segment: ZZZ
s_SegZZZ ==
    <<"S","e","g","m","e","n","t",":"," ","Z","Z","Z">>
\* Segment: DTM
s_SegDTM ==
    <<"S","e","g","m","e","n","t",":"," ","D","T","M">>
\* MOA
s_MOA ==
    <<"M","O","A">>
\* C082
s_C082 ==
    <<"C","0","8","2">>
\* Party identification M C
s_GroupDesc ==
    <<"P","a","r","t","y"," ","i","d","e","n","t","i","f","i","c","a","t","i","o","n"," ","M"," ","C">>
\* 3035
s_3035 ==
    <<"3","0","3","5">>
\* 3039
s_3039 ==
    <<"3","0","3","9">>
\* Party qualifier
s_PartyQualifier ==
    <<"P","a","r","t","y"," ","q","u","a","l","i","f","i","e","r">>
\* Party id
s_PartyId ==
    <<"P","a","r","t","y"," ","i","d">>
\* CDS
s_CDS ==
    <<"C","D","S">>
\* an  35
s_Format ==
    <<"a","n"," "," ","3","5">>
\* 1
s_One ==
    <<"1">>
\* 'ZZZ' = Mutually defined
s_UsageQuoted ==
    <<"'","Z","Z","Z","'"," ","="," ","M","u","t","u","a","l","l","y"," ","d","e","f","i","n","e","d">>
\* '123' = Other code
s_ContQuoted ==
    <<"'","1","2","3","'"," ","="," ","O","t","h","e","r"," ","c","o","d","e">>
\* ZZ = Mutual
s_UsagePlain ==
    <<"Z","Z"," ","="," ","M","u","t","u","a","l">>
\* 92 = Assigned
s_ContPlain ==
    <<"9","2"," ","="," ","A","s","s","i","g","n","e","d">>
\* AB = Segment: BGM
s_ContHeader ==
    <<"A","B"," ","="," ","S","e","g","m","e","n","t",":"," ","B","G","M">>
\* note
s_Note ==
    <<"n","o","t","e">>
\* Segment: NAD Cons. No.: 14 Level: 1 Name and address
s_VdaNAD ==
    <<"S","e","g","m","e","n","t",":"," ","N","A","D"," ","C","o","n","s","."," ","N","o",".",":"," ","1","4"," ","L","e","v","e","l",":"," ","1"," ","N","a","m","e"," ","a","n","d"," ","a","d","d","r","e","s","s">>
\* Segment: BGM Cons. No.: 2 Level: 0 0
s_VdaBGM ==
    <<"S","e","g","m","e","n","t",":"," ","B","G","M"," ","C","o","n","s","."," ","N","o",".",":"," ","2"," ","L","e","v","e","l",":"," ","0"," ","0">>
\* Segment: ZZZ Cons. No.: 3 Level: 1 1
s_VdaZZZ ==
    <<"S","e","g","m","e","n","t",":"," ","Z","Z","Z"," ","C","o","n","s","."," ","N","o",".",":"," ","3"," ","L","e","v","e","l",":"," ","1"," ","1">>
\* Segment: MOA Cons. No.: 5 Level: 1 Amount M C x
s_VdaMOA ==
    <<"S","e","g","m","e","n","t",":"," ","M","O","A"," ","C","o","n","s","."," ","N","o",".",":"," ","5"," ","L","e","v","e","l",":"," ","1"," ","A","m","o","u","n","t"," ","M"," ","C"," ","x">>
\* S.Format Name
s_SFormat ==
    <<"S",".","F","o","r","m","a","t"," ","N","a","m","e">>
\* C082 Party identification details
s_VdaGroup ==
    <<"C","0","8","2"," ","P","a","r","t","y"," ","i","d","e","n","t","i","f","i","c","a","t","i","o","n"," ","d","e","t","a","i","l","s">>
\* 3035 Party qualifier
s_VdaElem ==
    <<"3","0","3","5"," ","P","a","r","t","y"," ","q","u","a","l","i","f","i","e","r">>
\* 3039 Party id M C
s_VdaElem2 ==
    <<"3","0","3","9"," ","P","a","r","t","y"," ","i","d"," ","M"," ","C">>
\* 1131 Code list
s_VdaElem3 ==
    <<"1","1","3","1"," ","C","o","d","e"," ","l","i","s","t">>
\* M an..3
s_VdaFormat ==
    <<"M"," ","a","n",".",".","3">>
\* --
s_Dashes ==
    <<"-","-">>
\* Mutually Defined
s_ContCapital ==
    <<"M","u","t","u","a","l","l","y"," ","D","e","f","i","n","e","d">>
\* Segment: Pos.: 010 Level: 1
s_FaureciaLine ==
    <<"S","e","g","m","e","n","t",":"," ","P","o","s",".",":"," ","0","1","0"," ","L","e","v","e","l",":"," ","1">>
\* Segment:<newline>Pos.: 010<newline>Level: 1
s_FaureciaSplit ==
    <<"S","e","g","m","e","n","t",":","\n","P","o","s",".",":"," ","0","1","0","\n","L","e","v","e","l",":"," ","1">>
\* Pos.: 1 BGM
s_FaureciaWord ==
    <<"P","o","s",".",":"," ","1"," ","B","G","M">>
\* Segment: nad Pos. BGMX
s_Unknown ==
    <<"S","e","g","m","e","n","t",":"," ","n","a","d"," ","P","o","s","."," ","B","G","M","X">>

E == <<>>

\* rows of Faurecia tables
RowSegNAD == <<s_SegNAD>>
RowSegMOA == <<kw_Segment, s_MOA>>
RowSegBGM == <<s_SegBGM>>
RowSegZZZ == <<s_SegZZZ>>
RowSegDTM == <<s_SegDTM>>
RowGroup == <<s_C082, s_GroupDesc, E, E, E, E, E, E>>
RowElemQuoted == <<s_3035, s_PartyQualifier, E, E, s_CDS, E, s_One, s_UsageQuoted>>
RowElemPlain == <<s_3039, s_PartyId, E, E, s_Format, E, E, s_UsagePlain>>
RowContQuoted == <<E, E, E, E, E, E, E, s_ContQuoted>>
RowContPlain == <<E, E, E, E, E, E, E, s_ContPlain>>
RowContHeader == <<E, E, E, E, E, E, E, s_ContHeader>>
RowNote == <<s_Note>>
RowNone == <<>>

FaureciaTables ==
    <<  <<RowSegNAD, RowGroup, RowElemQuoted, RowContQuoted, RowElemPlain, RowContPlain>>,
        <<RowSegMOA, RowElemPlain, RowContPlain, RowContHeader, RowElemQuoted, RowNote>>,
        <<RowSegDTM, RowGroup, RowElemQuoted, RowContQuoted>>,
        <<RowElemPlain, RowGroup, RowNone, RowSegNAD, RowElemPlain, RowSegZZZ, RowGroup>>,
        <<RowSegBGM, RowGroup, RowElemPlain, RowSegNAD, RowElemQuoted>>,
        <<RowGroup, RowElemPlain, RowElemQuoted, RowContQuoted, RowNote>>  >>

\* rows of VDA tables
VdaRowHeader == <<s_SFormat, E, E, E>>
VdaRowGroup == <<s_VdaGroup, E, E, E>>
VdaRowElem == <<s_VdaElem, s_VdaFormat, s_One, s_UsageQuoted>>
VdaRowElem2 == <<s_VdaElem2, s_VdaFormat, E, s_Dashes>>
VdaRowElem3 == <<s_VdaElem3, E, E, s_UsagePlain>>
VdaRowContQuoted == <<E, E, E, s_ContQuoted>>
VdaRowContCapital == <<E, E, E, s_ContCapital>>

VdaTables ==
    <<  <<VdaRowHeader, VdaRowGroup, VdaRowElem, VdaRowContQuoted, VdaRowElem2>>,
        <<VdaRowElem, VdaRowContCapital, VdaRowElem3, RowNote>>,
        <<VdaRowGroup, VdaRowElem>>  >>

\* inputs with characters outside ASCII: the no-break space U+00A0 (written
\* \xa0 in the comments, a one-character string in the rows), other Unicode
\* spaces, digits of other scripts, accented letters
\* a Faurecia table:
\*   Segment:\xa0NAD Pos.: 040 Name und Adresse Käufer
\*   C\u0660\u0668\u0662 | Gruppe\u2003M\xa0C |  |  |  |  |  | 
\*   \uff11\uff12\uff13\uff14\x0d | Käufer |  |  | an\xa035 |  | 1 | ZZ = Mutual
\*    |  |  |  |  |  |  | A1\u2003= x\x0c
\*    |  |  |  |  |  |  | \u0663 = arabic
\*   note
FaureciaUnicodeTable ==
    <<  <<<<"S","e","g","m","e","n","t",":"," ","N","A","D"," ","P","o","s",
            ".",":"," ","0","4","0"," ","N","a","m","e"," ","u","n","d"," ",
            "A","d","r","e","s","s","e"," ","K","ä","u","f","e","r">>>>,
        <<<<"C","U+0660","U+0668","U+0662">>,
          <<"G","r","u","p","p","e","U+2003","M"," ","C">>,
          E,
          E,
          E,
          E,
          E,
          E>>,
        <<<<"U+FF11","U+FF12","U+FF13","U+FF14","\r">>,
          <<"K","ä","u","f","e","r">>,
          E,
          E,
          <<"a","n"," ","3","5">>,
          E,
          <<"1">>,
          <<"Z","Z"," ","="," ","M","u","t","u","a","l">>>>,
        <<E,
          E,
          E,
          E,
          E,
          E,
          E,
          <<"A","1","U+2003","="," ","x","\f">>>>,
        <<E,
          E,
          E,
          E,
          E,
          E,
          E,
          <<"U+0663"," ","="," ","a","r","a","b","i","c">>>>,
        <<<<"n","o","t","e">>>>  >>

\* Segment:\xa0DTM\u2003Cons.\x0dNo.:\x0c\u0661\uff14 Level:\u0663\xa0Käufer M C
s_VdaUnicode ==
    <<"S","e","g","m","e","n","t",":"," ","D","T","M","U+2003","C","o","n",
      "s",".","\r","N","o",".",":","\f","U+0661","U+FF14"," ","L","e",
      "v","e","l",":","U+0663"," ","K","ä","u","f","e","r"," ","M"," ","C">>

\* a VDA table:
\*   \uff11\uff12\uff13\uff14\xa0Breite Ziffern | M an..3 |  | Z9\u2003= x
\*    |  |  | Mutually\xa0Defined
\*   C\u0660\u0668\u0662\u2003Gruppe ä |  |  | 
\*   3035\x0dParty |  |  | '\uff11' = wide
VdaUnicodeTable ==
    <<  <<<<"U+FF11","U+FF12","U+FF13","U+FF14"," ","B","r","e",
            "i","t","e"," ","Z","i","f","f","e","r","n">>,
          <<"M"," ","a","n",".",".","3">>,
          E,
          <<"Z","9","U+2003","="," ","x">>>>,
        <<E,
          E,
          E,
          <<"M","u","t","u","a","l","l","y"," ","D","e","f","i","n","e","d">>>>,
        <<<<"C","U+0660","U+0668","U+0662","U+2003","G","r","u",
            "p","p","e"," ","ä">>,
          E,
          E,
          E>>,
        <<<<"3","0","3","5","\r","P","a","r","t","y">>,
          E,
          E,
          <<"'","U+FF11","'"," ","="," ","w","i","d","e">>>>  >>

\* Segment: x Pos.:\xa0\uff11 Level:
s_FaureciaWide ==
    <<"S","e","g","m","e","n","t",":"," ","x"," ","P","o","s",".",":"," ",
      "U+FF11"," ","L","e","v","e","l",":">>

\* Pos.: 1 éBGM (no word boundary before BGM)
s_AccentWord ==
    <<"P","o","s",".",":"," ","1"," ","é","B","G","M">>

Pages ==
    {[text |-> <<>>, tables |-> <<FaureciaTables[i]>>] : i \in {1, 2, 4, 5, 6}}
    \cup
    {[text |-> s_FaureciaWord, tables |-> <<FaureciaTables[3], FaureciaTables[5]>>],
     [text |-> s_VdaNAD, tables |-> <<VdaTables[1]>>],
     [text |-> s_VdaBGM, tables |-> <<VdaTables[2]>>],
     [text |-> s_VdaNAD \o NL \o s_VdaBGM, tables |-> <<VdaTables[1]>>],
     [text |-> s_VdaZZZ, tables |-> <<VdaTables[3], VdaTables[2]>>],
     [text |-> s_VdaMOA, tables |-> <<>>],
     [text |-> <<>>, tables |-> <<VdaTables[1]>>],
     [text |-> s_Unknown, tables |-> <<VdaTables[2]>>],
     [text |-> <<>>, tables |-> <<FaureciaUnicodeTable>>],
     [text |-> s_VdaUnicode, tables |-> <<VdaUnicodeTable>>]}

\* the largest number of pages of a document
MaxPages == 2

Documents == UNION {[1..n -> Pages] : n \in 0..MaxPages}

Init == \E doc \in Documents : Constructed(doc)

Table == pdf[page_num].tables[table_idx]
HasPage == page_num <= Len(pdf)
HasTable == HasPage /\ table_idx <= Len(pdf[page_num].tables)

\* self.pdf_format = self.detect_pdf_format(), and the choice of the parser
Detect ==
    /\ pc = "detect"
    /\ pdf_format' = detect_pdf_format(pdf)
    /\ pc' = IF pdf_format' = "vda4932" THEN "vda_page" ELSE "faurecia_table"
    /\ UNCHANGED <<pdf, segments_dict, heap, page_num, table_idx, row_idx,
                   current_segment, current_group, last_segment, returned,
                   json_out, declared, origin, enrich_in, norm_arg, norm_hist>>

\* the number of rows below which extract_faurecia_format skips a table
FaureciaMinRows == 5

\* (variant: the VDA parser's minimum is applied)
FaureciaSkips_Three(table) == table = <<>> \/ Len(table) < 3

\* if not table or len(table) < 5: continue
FaureciaSkips(table) == table = <<>> \/ Len(table) < FaureciaMinRows

FaureciaSkipTable ==
    /\ pc = "faurecia_table"
    /\ HasTable
    /\ FaureciaSkips(Table)
    /\ table_idx' = table_idx + 1
    /\ UNCHANGED <<pdf, pc, pdf_format, segments_dict, heap, page_num, row_idx,
                   current_segment, current_group, last_segment, returned,
                   json_out, declared, origin, enrich_in, norm_arg, norm_hist>>

\* _parse_faurecia_table is entered: current_segment = current_group = None
FaureciaEnterTable ==
    /\ pc = "faurecia_table"
    /\ HasTable
    /\ ~FaureciaSkips(Table)
    /\ pc' = "faurecia_row"
    /\ row_idx' = 1
    /\ current_segment' = None
    /\ current_group' = 0
    /\ UNCHANGED <<pdf, pdf_format, segments_dict, heap, page_num, table_idx,
                   last_segment, returned, json_out, declared, origin,
                   enrich_in, norm_arg, norm_hist>>

\* one pass of the row loop of _parse_faurecia_table
FaureciaRowStep ==
    /\ pc = "faurecia_row"
    /\ LET st == FaureciaRow(
                     [dict |-> segments_dict, heap |-> heap, origin |-> origin,
                      current_segment |-> current_segment,
                      current_group |-> current_group],
                     Table, row_idx,
                     [page |-> page_num, table |-> table_idx, row |-> row_idx,
                      segment |-> None])
       IN  /\ segments_dict' = st.dict
           /\ heap' = st.heap
           /\ origin' = st.origin
           /\ current_segment' = st.current_segment
           /\ current_group' = st.current_group
    /\ IF row_idx < Len(Table)
       THEN row_idx' = row_idx + 1 /\ UNCHANGED <<pc, table_idx>>
       ELSE pc' = "faurecia_table" /\ table_idx' = table_idx + 1 /\ row_idx' = 1
    /\ UNCHANGED <<pdf, pdf_format, page_num, last_segment, returned, json_out,
                   declared, enrich_in, norm_arg, norm_hist>>

\* the tables of the page are exhausted: next page
FaureciaNextPage ==
    /\ pc = "faurecia_table"
    /\ HasPage
    /\ ~HasTable
    /\ page_num' = page_num + 1
    /\ table_idx' = 1
    /\ UNCHANGED <<pdf, pc, pdf_format, segments_dict, heap, row_idx,
                   current_segment, current_group, last_segment, returned,
                   json_out, declared, origin, enrich_in, norm_arg, norm_hist>>

\* extract_faurecia_format returns
FaureciaDone ==
    /\ pc = "faurecia_table"
    /\ ~HasPage
    /\ pc' = "enrich"
    /\ UNCHANGED <<pdf, pdf_format, segments_dict, heap, page_num, table_idx,
                   row_idx, current_segment, current_group, last_segment,
                   returned, json_out, declared, origin, enrich_in, norm_arg,
                   norm_hist>>

\* a page without text: 'if not text: continue' skips its tables too
VdaSkipPage ==
    /\ pc = "vda_page"
    /\ HasPage
    /\ pdf[page_num].text = <<>>
    /\ page_num' = page_num + 1
    /\ UNCHANGED <<pdf, pc, pdf_format, segments_dict, heap, table_idx, row_idx,
                   current_segment, current_group, last_segment, returned,
                   json_out, declared, origin, enrich_in, norm_arg, norm_hist>>

\* the segment headers of the page's text are read
VdaPageText ==
    /\ pc = "vda_page"
    /\ HasPage
    /\ pdf[page_num].text # <<>>
    /\ LET st == VdaDeclare(
                     [dict |-> segments_dict, heap |-> heap, origin |-> origin,
                      last_segment |-> last_segment,
                      current_group |-> current_group, declared |-> declared],
                     VdaHeaders(pdf[page_num].text, 0))
       IN  /\ segments_dict' = st.dict
           /\ declared' = st.declared
    /\ pc' = "vda_table"
    /\ table_idx' = 1
    /\ UNCHANGED <<pdf, pdf_format, heap, page_num, row_idx, current_segment,
                   current_group, last_segment, returned, json_out, origin,
                   enrich_in, norm_arg, norm_hist>>

\* the number of rows below which extract_vda4932_format skips a table
VdaMinRows == 3

\* if not table or len(table) < 3: continue
VdaSkips(table) == table = <<>> \/ Len(table) < VdaMinRows

VdaSkipTable ==
    /\ pc = "vda_table"
    /\ HasTable
    /\ VdaSkips(Table)
    /\ table_idx' = table_idx + 1
    /\ UNCHANGED <<pdf, pc, pdf_format, segments_dict, heap, page_num, row_idx,
                   current_segment, current_group, last_segment, returned,
                   json_out, declared, origin, enrich_in, norm_arg, norm_hist>>

\* _parse_vda_table with an empty segment map: 'if not self.segments_dict: return'
VdaNoSegment ==
    /\ pc = "vda_table"
    /\ HasTable
    /\ ~VdaSkips(Table)
    /\ segments_dict = <<>>
    /\ table_idx' = table_idx + 1
    /\ UNCHANGED <<pdf, pc, pdf_format, segments_dict, heap, page_num, row_idx,
                   current_segment, current_group, last_segment, returned,
                   json_out, declared, origin, enrich_in, norm_arg, norm_hist>>

\* last_segment = list(self.segments_dict.values())[-1]
LastSegment(d) == Len(d)

\* _parse_vda_table is entered: last_segment is chosen, current_group = None
VdaEnterTable ==
    /\ pc = "vda_table"
    /\ HasTable
    /\ ~VdaSkips(Table)
    /\ segments_dict # <<>>
    /\ pc' = "vda_row"
    /\ row_idx' = 1
    /\ last_segment' = LastSegment(segments_dict)
    /\ current_group' = 0
    /\ UNCHANGED <<pdf, pdf_format, segments_dict, heap, page_num, table_idx,
                   current_segment, returned, json_out, declared, origin,
                   enrich_in, norm_arg, norm_hist>>

\* one pass of the row loop of _parse_vda_table
VdaRowStep ==
    /\ pc = "vda_row"
    /\ LET st == VdaRow(
                     [dict |-> segments_dict, heap |-> heap, origin |-> origin,
                      last_segment |-> last_segment,
                      current_group |-> current_group, declared |-> declared],
                     Table, row_idx,
                     [page |-> page_num, table |-> table_idx, row |-> row_idx,
                      segment |-> None])
       IN  /\ segments_dict' = st.dict
           /\ heap' = st.heap
           /\ origin' = st.origin
           /\ current_group' = st.current_group
    /\ IF row_idx < Len(Table)
       THEN row_idx' = row_idx + 1 /\ UNCHANGED <<pc, table_idx>>
       ELSE pc' = "vda_table" /\ table_idx' = table_idx + 1 /\ row_idx' = 1
    /\ UNCHANGED <<pdf, pdf_format, page_num, current_segment, last_segment,
                   returned, json_out, declared, enrich_in, norm_arg, norm_hist>>

\* the tables of the page are exhausted: next page
VdaNextPage ==
    /\ pc = "vda_table"
    /\ HasPage
    /\ ~HasTable
    /\ pc' = "vda_page"
    /\ page_num' = page_num + 1
    /\ table_idx' = 1
    /\ UNCHANGED <<pdf, pdf_format, segments_dict, heap, row_idx,
                   current_segment, current_group, last_segment, returned,
                   json_out, declared, origin, enrich_in, norm_arg, norm_hist>>

\* extract_vda4932_format returns
VdaDone ==
    /\ pc = "vda_page"
    /\ ~HasPage
    /\ pc' = "enrich"
    /\ UNCHANGED <<pdf, pdf_format, segments_dict, heap, page_num, table_idx,
                   row_idx, current_segment, current_group, last_segment,
                   returned, json_out, declared, origin, enrich_in, norm_arg,
                   norm_hist>>

\* self.add_standard_descriptions()
Enrich ==
    /\ pc = "enrich"
    /\ enrich_in' = segments_dict
    /\ segments_dict' = add_standard_descriptions(segments_dict)
    /\ pc' = "return"
    /\ UNCHANGED <<pdf, pdf_format, heap, page_num, table_idx, row_idx,
                   current_segment, current_group, last_segment, returned,
                   json_out, declared, origin, norm_arg, norm_hist>>

\* return list(self.segments_dict.values()); process_pdf saves a non-empty
\* result only
Return ==
    /\ pc = "return"
    /\ returned' = DictValues(segments_dict)
    /\ pc' = IF returned' # <<>> THEN "save" ELSE "failed"
    /\ UNCHANGED <<pdf, pdf_format, segments_dict, heap, page_num, table_idx,
                   row_idx, current_segment, current_group, last_segment,
                   json_out, declared, origin, enrich_in, norm_arg, norm_hist>>

\* extractor.save_to_json(output_json)
Save ==
    /\ pc = "save"
    /\ json_out' = segments_list(segments_dict)
    /\ pc' = "saved"
    /\ UNCHANGED <<pdf, pdf_format, segments_dict, heap, page_num, table_idx,
                   row_idx, current_segment, current_group, last_segment,
                   returned, declared, origin, enrich_in, norm_arg, norm_hist>>

Next ==
    \/ Detect
    \/ FaureciaSkipTable
    \/ FaureciaEnterTable
    \/ FaureciaRowStep
    \/ FaureciaNextPage
    \/ FaureciaDone
    \/ VdaSkipPage
    \/ VdaPageText
    \/ VdaSkipTable
    \/ VdaNoSegment
    \/ VdaEnterTable
    \/ VdaRowStep
    \/ VdaNextPage
    \/ VdaDone
    \/ Enrich
    \/ Return
    \/ Save

Spec == Init /\ [][Next]_vars

----------------------------------------------------------------------------
(* The two pure functions, each under a specification of its own           *)

\* the fragments the arguments of clean_description are built from
NormFragments ==
    {<<"X">>, <<" ">>, <<"\n">>, <<" ","M">>, <<" ","C">>, <<" ","N">>,
     <<" ","N","O","T"," ","U","S","E","D">>,
     <<"\r">>, <<"U+2003","C">>}
\* the largest number of fragments in an argument
MaxFragments == 3
\* the number of successive calls of clean_description on one argument
MaxCalls == 2

NormInputs ==
    {Concat(f) : f \in UNION {[1..n -> NormFragments] : n \in 0..MaxFragments}}

InitNorm ==
    /\ norm_arg \in NormInputs
    /\ norm_hist = <<>>
    /\ pc = "clean"
    /\ pdf = <<>>
    /\ pdf_format = "None"
    /\ segments_dict = <<>>
    /\ heap = <<>>
    /\ page_num = 1
    /\ table_idx = 1
    /\ row_idx = 1
    /\ current_segment = None
    /\ current_group = 0
    /\ last_segment = 0
    /\ returned = <<>>
    /\ json_out = <<>>
    /\ declared = None
    /\ origin = <<>>
    /\ enrich_in = <<>>

\* clean_description is applied to the result of the call before
Clean ==
    /\ pc = "clean"
    /\ Len(norm_hist) < MaxCalls
    /\ norm_hist' = Append(norm_hist, clean_description(norm_arg))
    /\ norm_arg' = clean_description(norm_arg)
    /\ UNCHANGED <<pdf, pc, pdf_format, segments_dict, heap, page_num, table_idx,
                   row_idx, current_segment, current_group, last_segment,
                   returned, json_out, declared, origin, enrich_in>>

SpecNorm == InitNorm /\ [][Clean]_vars

\* the page texts the documents of the detector are built from
DetectTexts ==
    {<<>>, s_Unknown, s_VdaNAD, s_FaureciaLine, s_FaureciaSplit, s_FaureciaWord,
     s_FaureciaWide, s_AccentWord}
\* texts no rule matches, for the leading pages
LeadTexts == {<<>>, s_Unknown}
\* the largest number of leading pages, and of pages after them
MaxLead == 10
MaxTail == 2

TextPage(text) == [text |-> text, tables |-> <<>>]

DetectDocuments ==
    {[i \in 1..(k + Len(tail)) |->
         IF i <= k THEN TextPage(lead) ELSE TextPage(tail[i - k])] :
     k \in 0..MaxLead, lead \in LeadTexts,
     tail \in UNION {[1..n -> DetectTexts] : n \in 0..MaxTail}}

InitDetect == \E doc \in DetectDocuments : Constructed(doc)

SpecDetect == InitDetect /\ [][Detect]_vars

----------------------------------------------------------------------------
(* Properties                                                              *)

\* the mnemonics of a list of segments
Mnemonics(vals) == [i \in 1..Len(vals) |-> vals[i].segment]

StrictlyAscending(keys) ==
    \A i \in 1..(Len(keys) - 1) : StrLess(keys[i], keys[i + 1])

NoDuplicates(keys) ==
    \A i, j \in 1..Len(keys) : keys[i] = keys[j] => i = j

\* the segments (positions in segments_dict) whose elements hold object id
SegmentsHolding(id) ==
    {i \in 1..Len(segments_dict) :
        \E j \in 1..Len(segments_dict[i].val.elements) :
            segments_dict[i].val.elements[j] = id}

\* the groups whose champs hold object id
GroupsHolding(id) ==
    {g \in 1..Len(heap) :
        IsGroup(heap[g]) /\ \E j \in 1..Len(heap[g].champs) : heap[g].champs[j] = id}

\* the number of places object id is held at
Places(id) ==
    Cardinality(UNION {{<<"segment", i, j>> :
                           j \in {j \in 1..Len(segments_dict[i].val.elements) :
                                     segments_dict[i].val.elements[j] = id}} :
                       i \in 1..Len(segments_dict)})
    + Cardinality(UNION {{<<"group", g, j>> :
                             j \in {j \in 1..Len(heap[g].champs) :
                                       heap[g].champs[j] = id}} :
                         g \in {g \in 1..Len(heap) : IsGroup(heap[g])}})

\* the keys of the segments that own object id, directly or through its group
Owners(id) ==
    {segments_dict[i].key :
        i \in SegmentsHolding(id) \cup UNION {SegmentsHolding(g) : g \in GroupsHolding(id)}}

\* the table and the row an object was emitted from
OriginTable(id) == pdf[origin[id].page].tables[origin[id].table]
OriginRow(id) == OriginTable(id)[origin[id].row]

Extracted == pc \in {"return", "save", "saved", "failed"}

(* C1: clean_description is idempotent: a second call on the result of a   *)
(* first call returns that result unchanged.                               *)
C1_Idempotent ==
    Len(norm_hist) >= 2 => norm_hist[2] = norm_hist[1]

(* C2: if the text of any of the first 10 pages matches the VDA marker,    *)
(* the detected format is 'vda4932', whatever earlier pages match.         *)
C2_VdaWins ==
    pdf_format # "None" =>
        ((\E n \in 1..10 : n <= Len(pdf) /\ VdaMarker(pdf[n].text))
            => pdf_format = "vda4932")

\* no rule matches the text
NoRule(text) ==
    /\ ~VdaMarker(text)
    /\ ~FaureciaLine(text)
    /\ ~FaureciaSplit(text)
    /\ ~FaureciaWord(text)

(* C3: detection always yields 'faurecia' or 'vda4932', and 'faurecia'     *)
(* when no rule matches any of the first 10 pages.                         *)
C3_DetectTotal ==
    pc # "detect" =>
        /\ pdf_format \in {"faurecia", "vda4932"}
        /\ (\A n \in 1..10 : n <= Len(pdf) => NoRule(pdf[n].text))
               => pdf_format = "faurecia"

\* a document of more than 10 pages whose 11th page alone bears the VDA
\* marker has been classified
C3_Witness ==
    /\ pc # "detect"
    /\ Len(pdf) > 10
    /\ \A n \in 1..10 : NoRule(pdf[n].text)
    /\ VdaMarker(pdf[11].text)
    /\ pdf_format = "faurecia"

(* C4: the list extract_all returns and the array save_to_json writes are   *)
(* both strictly ascending by segment mnemonic, with no duplicates,        *)
(* whatever the order in which the segment headers were first met.         *)
C4_BothAscending ==
    /\ pc \in {"save", "saved", "failed"} => StrictlyAscending(Mnemonics(returned))
    /\ pc = "saved" => StrictlyAscending(Mnemonics(json_out))

(* C5: the segment map is a strict tree: every group is held by exactly    *)
(* one segment from the moment it exists (so before it gets an element),   *)
(* by no group, and holds elements only; every element is held at exactly  *)
(* one place, a segment or a group.                                        *)
C5_StrictTree ==
    /\ Len(origin) = Len(heap)
    /\ \A id \in 1..Len(heap) :
          /\ Places(id) = 1
          /\ IsGroup(heap[id]) =>
                /\ Cardinality(SegmentsHolding(id)) = 1
                /\ GroupsHolding(id) = {}
                /\ \A j \in 1..Len(heap[id].champs) :
                      IsElement(heap[heap[id].champs[j]])
    /\ \A i \in 1..Len(segments_dict) :
          \A j \in 1..Len(segments_dict[i].val.elements) :
              segments_dict[i].val.elements[j] \in 1..Len(heap)

\* a group with an element in it and an element directly under a segment
C5_Witness ==
    /\ \E g \in 1..Len(heap) : IsGroup(heap[g]) /\ heap[g].champs # <<>>
    /\ \E id \in 1..Len(heap) : IsElement(heap[id]) /\ SegmentsHolding(id) # {}
    /\ Len(pdf) = 2 /\ page_num = 2

\* a coded-value definition line, quoted or not: 'ZZZ' = ..., 92 = ...
C6_CodedValueLine(usage) ==
    LET q1 == IF In(usage, 0, {"'", "\""}) THEN 1 ELSE 0
        n == Run(usage, q1, Upper \cup AsciiDigit)
        q2 == IF q1 = 1 /\ In(usage, q1 + n, {"'", "\""}) THEN 1 ELSE 0
        p == q1 + n + q2
    IN  n >= 1 /\ q1 = q2 /\ Lit(usage, p + Run(usage, p, Space), <<"=">>)

\* the usage texts of the continuation rows that follow, from row idx on
RECURSIVE C6_Continuation(_, _)
C6_Continuation(table, idx) ==
    IF idx > Len(table) THEN <<>>
    ELSE IF /\ Len(table[idx]) >= 8
            /\ ~IsElementCode(strip(table[idx][1]))
            /\ ~IsGroupCode(strip(table[idx][1]))
            /\ C6_CodedValueLine(strip(table[idx][8]))
    THEN <<strip(table[idx][8])>> \o C6_Continuation(table, idx + 1)
    ELSE <<>>

(* C6: in the Faurecia parser the usage of an element whose row has a      *)
(* non-empty usage column is that usage followed by the usage of each of   *)
(* the continuation rows that follow it, in row order, joined by newlines. *)
C6_UsageJoined ==
    pdf_format = "faurecia" =>
        \A id \in 1..Len(heap) :
            (/\ IsElement(heap[id])
             /\ Len(OriginRow(id)) >= 8
             /\ strip(OriginRow(id)[8]) # <<>>)
            => heap[id].usage =
                  join(NL, <<strip(OriginRow(id)[8])>> \o
                           C6_Continuation(OriginTable(id), origin[id].row + 1))

s_MonetaryAmount ==
    <<"M","o","n","e","t","a","r","y"," ","a","m","o","u","n","t">>

Placeholders == {<<>>, <<"0">>, <<"1">>}

(* C7: after add_standard_descriptions a segment whose normalized          *)
(* description is empty, "0" or "1" and whose mnemonic is in the standard  *)
(* table has the canonical name (MOA: "Monetary amount"); a segment with   *)
(* any other description has its normalized description; a segment absent  *)
(* from the table with an empty description keeps it empty.                *)
C7_Enriched ==
    Extracted =>
        /\ Len(segments_dict) = Len(enrich_in)
        /\ \A i \in 1..Len(segments_dict) :
              LET key == enrich_in[i].key
                  normalized == clean_description(enrich_in[i].val.description)
                  after == segments_dict[i].val.description
              IN  /\ segments_dict[i].key = key
                  /\ (normalized \in Placeholders /\ DictHas(standard_descriptions, key))
                        => /\ after # <<>>
                           /\ \E k \in 1..Len(standard_descriptions) :
                                 /\ standard_descriptions[k].key = key
                                 /\ standard_descriptions[k].val = after
                  /\ (normalized \in Placeholders /\ key = <<"M","O","A">>)
                        => after = s_MonetaryAmount
                  /\ normalized \notin Placeholders => after = normalized
                  /\ (enrich_in[i].val.description = <<>>
                      /\ ~DictHas(standard_descriptions, key))
                        => after = <<>>

\* MOA got its name, a described segment kept its description, and a
\* segment that is not in the table stayed without one
C7_Witness ==
    /\ Extracted
    /\ \E i \in 1..Len(segments_dict) :
          /\ segments_dict[i].key = <<"M","O","A">>
          /\ enrich_in[i].val.description = <<>>
          /\ segments_dict[i].val.description = s_MonetaryAmount
    /\ \E i \in 1..Len(segments_dict) :
          /\ enrich_in[i].val.description # <<>>
          /\ segments_dict[i].val.description = enrich_in[i].val.description
    /\ \E i \in 1..Len(segments_dict) :
          /\ ~DictHas(standard_descriptions, segments_dict[i].key)
          /\ segments_dict[i].val.description = <<>>

(* C8: under the Faurecia convention no step taken while the extraction    *)
(* stands at a table of fewer than 5 rows changes the segment map or the   *)
(* objects: the table adds no element, no group and no segment.            *)
C8_ShortTableSkipped ==
    [][(/\ pdf_format = "faurecia"
        /\ pc \in {"faurecia_table", "faurecia_row"}
        /\ HasTable
        /\ Len(Table) < 5)
       => /\ segments_dict' = segments_dict
          /\ heap' = heap
          /\ pc' = "faurecia_table"
          /\ table_idx' = table_idx + 1]_vars

\* a table of 4 rows that starts with a segment header has been passed, and
\* its segment is not in the map
C8_Witness ==
    /\ pdf_format = "faurecia"
    /\ pc = "faurecia_table"
    /\ HasPage
    /\ table_idx > 1
    /\ Len(pdf[page_num].tables[table_idx - 1]) = 4
    /\ SegmentMatch(join(SP, row_clean(pdf[page_num].tables[table_idx - 1][1]))) # None
    /\ ~DictHas(segments_dict,
                SegmentMatch(join(SP, row_clean(pdf[page_num].tables[table_idx - 1][1]))))

(* C9: the segment map holds one entry per mnemonic, whose 'segment' field *)
(* is its key; no object accumulated under a segment is ever lost; and     *)
(* every object is held by the entry of the header that was last declared  *)
(* when its row was read, also when that header repeats a known mnemonic.  *)
C9_UniqueMerged ==
    /\ NoDuplicates(DictKeys(segments_dict))
    /\ \A i \in 1..Len(segments_dict) :
          segments_dict[i].val.segment = segments_dict[i].key
    /\ \A id \in 1..Len(heap) :
          /\ Owners(id) # {}
          /\ origin[id].segment \in Owners(id)

(* C10: in the VDA parser every group or element emitted from a table is   *)
(* owned by the segment whose header was declared last when the table was  *)
(* visited.                                                                *)
C10_LatestHeaderOwns ==
    pdf_format = "vda4932" =>
        \A id \in 1..Len(heap) : Owners(id) = {origin[id].segment}

\* the rows of its table whose usage the look-ahead of the VDA parser folded
\* into element id
C11_FoldedRows(id) ==
    IF heap[id].usage = <<>> THEN {}
    ELSE (origin[id].row + 1) ..
         (origin[id].row + Len(VdaLookahead(OriginTable(id), origin[id].row + 1)))

(* C11: in the VDA parser no table row both has its usage text folded into *)
(* a preceding element's usage and is emitted as an element or group of    *)
(* its own: the look-ahead stops at the first row that starts one.         *)
C11_FoldedNotEmitted ==
    pdf_format = "vda4932" =>
        \A id, other \in 1..Len(heap) :
            (/\ IsElement(heap[id])
             /\ origin[other].page = origin[id].page
             /\ origin[other].table = origin[id].table)
            => origin[other].row \notin C11_FoldedRows(id)

\* the rows of its table whose usage the look-ahead of the Faurecia parser
\* folded into element id
C12_FoldedRows(id) ==
    IF heap[id].usage = <<>> THEN {}
    ELSE (origin[id].row + 1) ..
         (origin[id].row + Len(FaureciaLookahead(OriginTable(id), origin[id].row + 1)))

\* the row loop of the Faurecia parser stands at a row that was folded into
\* an element emitted from the same table
C12_AtFoldedRow ==
    /\ pdf_format = "faurecia"
    /\ pc = "faurecia_row"
    /\ \E id \in 1..Len(heap) :
          /\ IsElement(heap[id])
          /\ origin[id].page = page_num
          /\ origin[id].table = table_idx
          /\ row_idx \in C12_FoldedRows(id)

(* C12: in the Faurecia parser a row whose usage was folded into a         *)
(* preceding element is consumed: the pass of the row loop over it emits   *)
(* no element or group, creates no segment, and leaves the current segment *)
(* and the current group as they are.                                      *)
C12_FoldedConsumed ==
    [][C12_AtFoldedRow =>
           /\ heap' = heap
           /\ segments_dict' = segments_dict
           /\ current_segment' = current_segment
           /\ current_group' = current_group]_vars

\* row r of the table is a segment header row
C13_IsHeader(table, r) ==
    /\ table[r] # <<>>
    /\ SegmentMatch(join(SP, row_clean(table[r]))) # None

\* row r of the table is a group row
C13_IsGroupRow(table, r) ==
    /\ table[r] # <<>>
    /\ ~C13_IsHeader(table, r)
    /\ IsGroupCode(Col(row_clean(table[r]), 0))

\* the segment header rows above the row of object id, in its table
C13_Headers(id) ==
    {r \in 1..(origin[id].row - 1) : C13_IsHeader(OriginTable(id), r)}

\* the group rows between the last segment header and the row of object id
C13_Groups(id) ==
    {r \in (Max(C13_Headers(id)) + 1)..(origin[id].row - 1) :
        C13_IsGroupRow(OriginTable(id), r)}

\* the position in the map of the segment of the last header above object id
C13_Segment(id) ==
    DictIndex(segments_dict,
              SegmentMatch(join(SP, row_clean(OriginTable(id)[Max(C13_Headers(id))]))))

(* C13: in the Faurecia parser the open segment and the open group are     *)
(* scoped to one table: every emitted row has a segment header above it in *)
(* its own table; a group joins the segment of the last such header; an    *)
(* element joins the group opened last since that header if there is one,  *)
(* that segment otherwise; so a group holds only elements of its own table *)
(* with no segment header between the group's row and theirs.              *)
C13_TableScoped ==
    pdf_format = "faurecia" =>
        \A id \in 1..Len(heap) :
            /\ C13_Headers(id) # {}
            /\ IF IsGroup(heap[id]) \/ C13_Groups(id) = {}
               THEN /\ SegmentsHolding(id) = {C13_Segment(id)}
                    /\ GroupsHolding(id) = {}
               ELSE /\ SegmentsHolding(id) = {}
                    /\ GroupsHolding(id) =
                          {g \in 1..Len(heap) :
                              /\ IsGroup(heap[g])
                              /\ origin[g].page = origin[id].page
                              /\ origin[g].table = origin[id].table
                              /\ origin[g].row = Max(C13_Groups(id))}
            /\ \A g \in GroupsHolding(id) :
                  /\ origin[g].page = origin[id].page
                  /\ origin[g].table = origin[id].table
                  /\ origin[g].row < origin[id].row
                  /\ \A r \in origin[g].row..origin[id].row :
                        ~C13_IsHeader(OriginTable(id), r)

\* the second page's table starts with an element row and a group row that
\* were discarded although the first page left a segment with an open group;
\* after its own header an element went straight to the segment
C13_Witness ==
    /\ pdf_format = "faurecia"
    /\ pc = "enrich"
    /\ Len(pdf) = 2
    /\ \E g \in 1..Len(heap) :
          IsGroup(heap[g]) /\ origin[g].page = 1 /\ heap[g].champs # <<>>
    /\ pdf[2].tables # <<>>
    /\ ~C13_IsHeader(pdf[2].tables[1], 1)
    /\ IsElementCode(Col(row_clean(pdf[2].tables[1][1]), 0))
    /\ C13_IsGroupRow(pdf[2].tables[1], 2)
    /\ \A id \in 1..Len(heap) : origin[id].page = 2 => origin[id].row > 2
    /\ \E id \in 1..Len(heap) :
          /\ origin[id].page = 2
          /\ IsElement(heap[id])
          /\ SegmentsHolding(id) # {}

====
